---------------------------- MODULE Spec2Model ----------------------------
(***************************************************************************)
(* Frame-based expert system of src/lab3/lab3.py: the Frame/Slot model,    *)
(* the knowledge-base loader, the working memory, the inference engine and *)
(* the explanation component; and the rule engine of src/lab2/lab2.py:     *)
(* production rules, working memory of facts and forward chaining.         *)
(*                                                                         *)
(* Cyrillic string literals of the source are transliterated letter by     *)
(* letter (zh = ж, j = й, h = х, c = ц, ch = ч, sh = ш, shch = щ, y = ы,   *)
(* e = э, yu = ю, ya = я; ь and ъ are dropped):                            *)
(*   platforma = платформа, zhanr = жанр, trebuet_onlajn = требует_онлайн, *)
(*   dlina_sessii = длина_сессии, slozhnost = сложность,                   *)
(*   sovmestimost = совместимость, PK = ПК, da = да, net = нет,            *)
(*   ekshen = экшен, strategiya = стратегия, priklyuchenie = приключение,  *)
(*   korotkaya = короткая, dlinnaya = длинная, srednyaya = средняя,        *)
(*   multiplatforma = мультиплатформа, neizvestno = неизвестно,            *)
(*   Igra = Игра, Igra_dlya_PK = Игра_для_ПК,                              *)
(*   Konsolnaya_igra = Консольная_игра, Ekshen = Экшен,                    *)
(*   Strategiya = Стратегия, Priklyuchenie = Приключение,                  *)
(*   trebuemaya_platforma = требуемая_платформа,                           *)
(*   trebuemyj_zhanr = требуемый_жанр,                                     *)
(*   rekomenduemaya_dlina_sessii = рекомендуемая_длина_сессии,             *)
(*   prichina_rekomendacii = причина_рекомендации,                         *)
(*   pohozhie_igry = похожие_игры, imeet_PK = имеет_ПК,                    *)
(*   nravyatsya_eksheny = нравятся_экшены, korotkie_sessii =               *)
(*   короткие_сессии, and so on for the other slot names and values.       *)
(***************************************************************************)
EXTENDS Integers, Sequences, FiniteSets, TLC

VARIABLES
    frames,            \* KnowledgeBase.frames: frame name -> Frame
    user_preferences,  \* WorkingMemory.user_preferences
    proto_frames,      \* WorkingMemory.proto_frames (list of Frame objects)
    exo_frames,        \* WorkingMemory.exo_frames (list of catalog frame names)
    trace,             \* WorkingMemory.trace (list of TraceEntry)
    matched_frames,    \* the list the last frame_based_inference returned
    rules,             \* lab2 KnowledgeBase._rules (list of Rule)
    facts,             \* lab2 WorkingMemory._facts: fact -> FactRecord
    counter,           \* lab2 WorkingMemory._counter
    ret                \* the last call and what it returned or raised

vars == <<frames, user_preferences, proto_frames, exo_frames, trace,
          matched_frames, rules, facts, counter, ret>>

\* The rule engine of lab2 is a program of its own: in a session of lab3 it
\* holds no rules and no facts.
NoRuleEngine ==
    /\ rules = <<>>
    /\ facts = <<>>
    /\ counter = 0

(***************************************************************************)
(* Python values.  A value is <<type, text, number>>: the Python type's    *)
(* name, the payload of a str / the name of a Frame / the label of a list, *)
(* and the payload of a bool (0, 1), an int, a float or the length of a    *)
(* list.                                                                   *)
(***************************************************************************)
None == <<"NoneType", "", 0>>
Str(s) == <<"str", s, 0>>
Bool(b) == <<"bool", "", IF b THEN 1 ELSE 0>>
PyTrue == Bool(TRUE)
PyFalse == Bool(FALSE)
FrameRef(name) == <<"Frame", name, 0>>
List(label, len) == <<"list", label, len>>

\* Python truthiness (`if value:`).
Truthy(v) ==
    CASE v[1] = "NoneType" -> FALSE
      [] v[1] = "str" -> v[2] # ""
      [] v[1] = "Frame" -> TRUE
      [] OTHER -> v[3] # 0

\* str(value) as an f-string renders it.
ToStr(v) ==
    CASE v[1] = "str" -> v[2]
      [] v[1] = "Frame" -> "Frame(" \o v[2] \o ")"
      [] v[1] = "bool" -> IF v[3] = 1 THEN "True" ELSE "False"
      [] v[1] = "NoneType" -> "None"
      [] OTHER -> v[2]

(***************************************************************************)
(* binary64 numbers.  Every float the program computes is a quotient of    *)
(* sums of hundredths; FloatScale is the least common multiple of the      *)
(* denominators that occur (10 and the sums 15, 30, 35, 50, 65, 70, 85,    *)
(* 100 total_possible takes), so num/den is the integer                    *)
(* num*FloatScale/den.                                                     *)
(* A float is kept as 4*that + ulp, where ulp is the distance in units in  *)
(* the last place between what the binary64 operations of the source give  *)
(* and the binary64 nearest to the exact quotient: the order and equality  *)
(* of these integers are the order and equality of the program's floats.   *)
(***************************************************************************)
FloatScale == 4 * 3 * 25 * 7 * 13 * 17
FloatKey(num, den, ulp) == 4 * ((num * FloatScale) \div den) + ulp
Float(num, den, ulp) == <<"float", "", FloatKey(num, den, ulp)>>

\* `value or 0` used as a sort / max key.
NumOrZero(v) == IF Truthy(v) THEN v[3] ELSE 0

(***************************************************************************)
(* Slot                                                                    *)
(***************************************************************************)
DataType == {"INTEGER", "TEXT", "BOOLEAN", "FRAME", "LIST"}
InheritanceType == {"U", "S", "R", "O"}
TriggerType == {"IF-NEEDED", "IF-ADDED", "IF-REMOVED"}

NoTriggers == [k \in TriggerType |-> ""]

\* Slot.__init__: default_value is the value the slot was created with.
Slot(value, data_type, inheritance, range_values, triggers) ==
    [value |-> value, data_type |-> data_type, inheritance |-> inheritance,
     range_values |-> range_values, triggers |-> triggers,
     default_value |-> value]

\* Slot._validate_type
ValidateType(data_type, value) ==
    IF value = None THEN TRUE
    ELSE CASE data_type = "INTEGER" -> value[1] \in {"int", "float"}
           [] data_type = "TEXT" -> value[1] = "str"
           [] data_type = "BOOLEAN" -> value[1] = "bool"
           [] data_type = "FRAME" -> value[1] = "Frame"
           [] data_type = "LIST" -> value[1] = "list"
           [] OTHER -> TRUE

\* Slot._validate_range: an empty range does not constrain.
ValidateRange(range_values, value) ==
    IF range_values = {} THEN TRUE ELSE value \in range_values

(***************************************************************************)
(* Frame.  A frame is [name, slots]; slots maps the declared slot names to *)
(* Slots and always holds "AKO".                                           *)
(***************************************************************************)
Frame(name) ==
    [name |-> name,
     slots |-> [n \in {"AKO"} |-> Slot(None, "FRAME", "S", {}, NoTriggers)]]

\* Frame.add_slot: self.slots[slot.name] = slot
AddSlot(frame, slot_name, slot) ==
    [frame EXCEPT !.slots =
        [n \in DOMAIN frame.slots \cup {slot_name} |->
            IF n = slot_name THEN slot ELSE frame.slots[n]]]

\* Frame.set_ako: writes the AKO slot's value directly.
SetAko(frame, parent_name) ==
    [frame EXCEPT !.slots["AKO"].value = FrameRef(parent_name)]

\* Frame.create_proto_frame
CreateProtoFrame(frame) == SetAko(Frame("Proto_" \o frame.name), frame.name)

\* The frame an AKO slot points at, "" when it points at none
\* (`if ako_frame and isinstance(ako_frame, Frame)`).
AkoOf(frame) ==
    LET v == frame.slots["AKO"].value
    IN  IF Truthy(v) /\ v[1] = "Frame" THEN v[2] ELSE ""

\* What an operation gives back: the value returned, the knowledge base it
\* leaves, the exception it raised ("" when it returned) and the trigger
\* procedures it called, in the order of the calls.
Result(val, fs, err) == [val |-> val, fs |-> fs, err |-> err, fired |-> <<>>]

\* r, reached after the trigger procedures `procedures` were called.
Fired(procedures, r) == [r EXCEPT !.fired = procedures \o @]


(***************************************************************************)
(* KnowledgeBase: catalog and builtin procedures                           *)
(***************************************************************************)
\* KnowledgeBase.get_game_frames: the fixed catalog names, in this order.
game_names ==
    <<"Counter-Strike", "Battlefield", "Halo", "God_of_War", "The_Witcher",
      "Skyrim", "Final_Fantasy", "Age_of_Empires", "Civilization", "XCOM",
      "Batman_Arkham", "Uncharted", "The_Legend_of_Zelda">>

\* KnowledgeBase._register_procedures: the procedures a trigger can name.
IfNeededProcedures ==
    {"calculate_compatibility", "get_recommendation_reason",
     "determine_platform", "suggest_similar_games"}
IfAddedProcedures ==
    {"validate_budget", "update_genre_compatibility", "validate_session_length"}
Procedures == IfNeededProcedures \cup IfAddedProcedures

\* KnowledgeBase._suggest_similar_games: two titles for a catalog game,
\* the empty list for any other frame.
SuggestSimilarGames(frame_name) ==
    IF \E i \in DOMAIN game_names : game_names[i] = frame_name
    THEN List("similar:" \o frame_name, 2)
    ELSE List("", 0)

\* "; ".join(reasons)
RECURSIVE Join(_)
Join(reasons) ==
    IF reasons = <<>> THEN ""
    ELSE IF Len(reasons) = 1 THEN reasons[1]
    ELSE reasons[1] \o "; " \o Join(Tail(reasons))

\* KnowledgeBase._get_recommendation_reason, from the five values it read.
ReasonText(v) ==
    LET reasons ==
            (IF Truthy(v[1]) THEN <<"Platforma: " \o ToStr(v[1])>> ELSE <<>>)
         \o (IF Truthy(v[2]) THEN <<"Zhanr: " \o ToStr(v[2])>> ELSE <<>>)
         \o (IF Truthy(v[3]) THEN <<"Dlina sessij: " \o ToStr(v[3])>> ELSE <<>>)
         \o (IF Truthy(v[4]) THEN <<"Trebuetsya onlajn-dostup">>
             ELSE IF v[4] = PyFalse THEN <<"Ne trebuet onlajn-dostupa">>
             ELSE <<>>)
         \o (IF Truthy(v[5]) THEN <<"Slozhnost: " \o ToStr(v[5])>> ELSE <<>>)
    IN  Str(IF reasons # <<>> THEN Join(reasons) ELSE "Obshchaya sovmestimost")

\* KnowledgeBase._calculate_compatibility, from the four values it read:
\* 0.3 + 0.3 + 0.2 + 0.2 (binary64 gives these sums of tenths exactly
\* rounded, so ulp is 0).
KbCompatibility(v) ==
    Float((IF Truthy(v[1]) THEN 3 ELSE 0) + (IF Truthy(v[2]) THEN 3 ELSE 0)
          + (IF Truthy(v[3]) THEN 2 ELSE 0) + (IF v[4] # None THEN 2 ELSE 0),
          10, 0)

(***************************************************************************)
(* Reading a slot.  `busy` holds the get_slot_value(frame, slot) calls on  *)
(* the Python stack: entering one of them again, with the knowledge base   *)
(* as that call left it, repeats it without end, and Python raises         *)
(* RecursionError.                                                         *)
(***************************************************************************)
RECURSIVE GetSlotValueIn(_, _, _, _)
RECURSIVE ReadSlots(_, _, _, _)

\* The reads `done` so far (the list of their values, the knowledge base
\* they left) followed by the read r.
Collect(done, r) ==
    Fired(done.fired,
          [r EXCEPT !.val = IF r.err = "" THEN Append(done.val, r.val) ELSE done.val])

\* frame.get_slot_value(n) for each n of slot_names in turn, after the reads
\* `done`; an exception ends the reading.
ReadSlots(done, f, slot_names, busy) ==
    IF slot_names = <<>> \/ done.err # "" THEN done
    ELSE ReadSlots(Collect(done, GetSlotValueIn(done.fs, f, Head(slot_names), busy)),
                   f, Tail(slot_names), busy)

\* The slots a procedure reads from its frame, in the order it reads them.
ProcedureSlots(procedure) ==
    IF procedure = "calculate_compatibility"
    THEN <<"platforma", "zhanr", "dlina_sessii", "trebuet_onlajn">>
    ELSE <<"platforma", "zhanr", "dlina_sessii", "trebuet_onlajn", "slozhnost">>

\* What such a procedure returns from the reads r.
ProcedureValue(procedure, r) ==
    [r EXCEPT !.val = IF r.err # "" THEN None
                      ELSE IF procedure = "calculate_compatibility"
                      THEN KbCompatibility(r.val)
                      ELSE ReasonText(r.val)]

\* self.triggers[TriggerType.IF_NEEDED](frame): a procedure written for
\* IF-ADDED takes (frame, old_value, new_value) and raises TypeError here.
CallIfNeeded(procedure, fs, f, busy) ==
    CASE procedure \in {"calculate_compatibility", "get_recommendation_reason"} ->
            ProcedureValue(procedure,
                           ReadSlots(Result(<<>>, fs, ""), f,
                                     ProcedureSlots(procedure), busy))
      [] procedure = "determine_platform" -> Result(Str("PK"), fs, "")
      [] procedure = "suggest_similar_games" ->
            Result(SuggestSimilarGames(fs[f].name), fs, "")
      [] OTHER -> Result(None, fs, "TypeError")

\* Slot.get_value without its `return computed_value`: a computed value
\* that passes both validations is stored, and None is returned.
StoreUnreturned(c, f, s) ==
    IF c.err # "" THEN c
    ELSE IF ValidateType(c.fs[f].slots[s].data_type, c.val)
            /\ ValidateRange(c.fs[f].slots[s].range_values, c.val)
    THEN [c EXCEPT !.fs[f].slots[s].value = c.val, !.val = None]
    ELSE [c EXCEPT !.val = None]

\* Slot.get_value after the IF-NEEDED trigger returned c: the value is
\* stored and returned when it passes both validations, None otherwise.
StoreComputed(c, f, s) ==
    IF c.err # "" THEN c
    ELSE IF ValidateType(c.fs[f].slots[s].data_type, c.val)
            /\ ValidateRange(c.fs[f].slots[s].range_values, c.val)
    THEN [c EXCEPT !.fs[f].slots[s].value = c.val]
    ELSE [c EXCEPT !.val = None]

\* Slot.get_value
SlotGetValue(fs, f, s, busy) ==
    LET slot == fs[f].slots[s]
    IN  IF slot.value = None /\ slot.default_value # None
        THEN Result(slot.default_value, fs, "")
        ELSE IF slot.value = None
        THEN IF slot.triggers["IF-NEEDED"] # ""
             THEN StoreComputed(Fired(<<slot.triggers["IF-NEEDED"]>>,
                                      CallIfNeeded(slot.triggers["IF-NEEDED"],
                                                   fs, f, busy)),
                                f, s)
             ELSE Result(None, fs, "")
        ELSE Result(slot.value, fs, "")

\* Frame.get_slot_value after the frame's own slot answered `own`: a value
\* is returned, None sends the read to the AKO parent.
Inherit(own, f, s, busy) ==
    IF own.err # "" \/ own.val # None THEN own
    ELSE IF AkoOf(own.fs[f]) # ""
    THEN Fired(own.fired, GetSlotValueIn(own.fs, AkoOf(own.fs[f]), s, busy))
    ELSE own

\* Frame.get_slot_value of knowledge-base frame f.
GetSlotValueIn(fs, f, s, busy) ==
    IF <<f, s>> \in busy THEN Result(None, fs, "RecursionError")
    ELSE Inherit(IF s \in DOMAIN fs[f].slots
                 THEN SlotGetValue(fs, f, s, busy \cup {<<f, s>>})
                 ELSE Result(None, fs, ""),
                 f, s, busy \cup {<<f, s>>})

GetSlotValue(fs, f, s) == GetSlotValueIn(fs, f, s, {})

(***************************************************************************)
(* Writing and clearing a slot                                             *)
(***************************************************************************)
\* self.triggers[TriggerType.IF_ADDED](frame, old_value, value): the
\* validators raise ValueError; a procedure written for IF-NEEDED takes
\* (frame) alone and raises TypeError.
CallIfAdded(procedure, new_value) ==
    CASE procedure = "validate_budget" ->
            IF new_value \in {Str("nizkij"), Str("srednij"), Str("vysokij")}
            THEN "" ELSE "ValueError"
      [] procedure = "validate_session_length" ->
            IF new_value \in {Str("korotkaya"), Str("dlinnaya"), Str("srednyaya")}
            THEN "" ELSE "ValueError"
      [] procedure = "update_genre_compatibility" -> ""
      [] OTHER -> "TypeError"

\* What a write gives back: the knowledge base it leaves, the exception it
\* raised and the IF-ADDED procedures it called.
Written(fs, err, fired) == [fs |-> fs, err |-> err, fired |-> fired]

\* Slot.set_value with the write ahead of the validations.
SlotSetValueUnchecked(fs, f, s, value) ==
    LET slot == fs[f].slots[s]
        written == [fs EXCEPT ![f].slots[s].value = value]
    IN  IF ~ValidateType(slot.data_type, value) THEN Written(written, "ValueError", <<>>)
        ELSE IF ~ValidateRange(slot.range_values, value)
        THEN Written(written, "ValueError", <<>>)
        ELSE IF slot.triggers["IF-ADDED"] # ""
        THEN Written(written, CallIfAdded(slot.triggers["IF-ADDED"], value),
                     <<slot.triggers["IF-ADDED"]>>)
        ELSE Written(written, "", <<>>)

\* Slot.set_value: both validations come before the write, the IF-ADDED
\* trigger after it.
SlotSetValue(fs, f, s, value) ==
    LET slot == fs[f].slots[s]
    IN  IF ~ValidateType(slot.data_type, value) THEN Written(fs, "ValueError", <<>>)
        ELSE IF ~ValidateRange(slot.range_values, value)
        THEN Written(fs, "ValueError", <<>>)
        ELSE IF slot.triggers["IF-ADDED"] # ""
        THEN Written([fs EXCEPT ![f].slots[s].value = value],
                     CallIfAdded(slot.triggers["IF-ADDED"], value),
                     <<slot.triggers["IF-ADDED"]>>)
        ELSE Written([fs EXCEPT ![f].slots[s].value = value], "", <<>>)

\* The data type Frame.set_slot_value gives a slot it creates.
InferDataType(value) ==
    CASE value[1] = "bool" -> "BOOLEAN"
      [] value[1] \in {"int", "float"} -> "INTEGER"
      [] value[1] = "Frame" -> "FRAME"
      [] value[1] = "list" -> "LIST"
      [] OTHER -> "TEXT"

\* Frame.set_slot_value on a frame object (a proto-frame or a frame of the
\* knowledge base): a slot the frame lacks is created unvalidated.
NewSlot(value) == Slot(value, InferDataType(value), "O", {}, NoTriggers)

\* Frame.set_slot_value of knowledge-base frame f.
SetSlotValue(fs, f, s, value) ==
    IF s \notin DOMAIN fs[f].slots
    THEN Written([fs EXCEPT ![f] = AddSlot(fs[f], s, NewSlot(value))], "", <<>>)
    ELSE SlotSetValue(fs, f, s, value)

\* Slot.remove_value: no registered procedure takes (frame, old_value), so
\* an IF-REMOVED trigger raises TypeError after the value is cleared.
SlotRemoveValue(fs, f, s) ==
    Written([fs EXCEPT ![f].slots[s].value = None],
            IF fs[f].slots[s].triggers["IF-REMOVED"] # "" THEN "TypeError" ELSE "",
            <<>>)

\* Frame.is_a
RECURSIVE IsAIn(_, _, _, _)
IsAIn(fs, f, frame_type, seen) ==
    IF fs[f].name = frame_type THEN "True"
    ELSE IF AkoOf(fs[f]) = "" THEN "False"
    ELSE IF AkoOf(fs[f]) \in seen THEN "loops"
    ELSE IsAIn(fs, AkoOf(fs[f]), frame_type, seen \cup {f})

(***************************************************************************)
(* KnowledgeBase.load_from_json.  The knowledge file is the list           *)
(* data['frames'] of frame definitions [name, ako, slots]; ako is "" when  *)
(* the key is absent or null; a slot definition is [name, data_type,       *)
(* inheritance, value, range, triggers] with the defaults of               *)
(* slot_data.get filled in, triggers a list of <<kind, procedure>> pairs,  *)
(* and a value written "!ref:X" kept as <<"ref", X, 0>>.                   *)
(***************************************************************************)
Ref(name) == <<"ref", name, 0>>

SlotData(name, data_type, inheritance, value, range, triggers) ==
    [name |-> name, data_type |-> data_type, inheritance |-> inheritance,
     value |-> value, range |-> range, triggers |-> triggers]

FrameData(name, ako, slots) == [name |-> name, ako |-> ako, slots |-> slots]

\* _parse_triggers giving up on the whole mapping when one entry of it is
\* of no TriggerType or names no registered procedure.
ParseTriggersOrNone(trigger_data) ==
    IF \E n \in DOMAIN trigger_data :
           trigger_data[n][1] \notin TriggerType \/ trigger_data[n][2] \notin Procedures
    THEN NoTriggers
    ELSE [k \in TriggerType |->
            IF \E n \in DOMAIN trigger_data : trigger_data[n][1] = k
            THEN trigger_data[CHOOSE n \in DOMAIN trigger_data :
                                  trigger_data[n][1] = k][2]
            ELSE ""]

\* KnowledgeBase._parse_triggers: an entry whose kind is no TriggerType or
\* whose procedure is not registered is skipped.
RECURSIVE ParseTriggers(_)
ParseTriggers(trigger_data) ==
    IF trigger_data = <<>> THEN NoTriggers
    ELSE LET e == trigger_data[Len(trigger_data)]
             before == ParseTriggers(SubSeq(trigger_data, 1, Len(trigger_data) - 1))
         IN  IF e[1] \in TriggerType /\ e[2] \in Procedures
             THEN [before EXCEPT ![e[1]] = e[2]]
             ELSE before

\* KnowledgeBase._resolve_frame_reference
ResolveFrameReference(frame_objects, ref) ==
    IF ref[1] = "ref"
    THEN IF ref[2] \in DOMAIN frame_objects THEN FrameRef(ref[2]) ELSE None
    ELSE ref

\* The Slot load_from_json builds from a slot definition: the value is
\* stored as written, without set_value's validation.
LoadSlot(frame_objects, slot_data) ==
    Slot(ResolveFrameReference(frame_objects, slot_data.value),
         slot_data.data_type, slot_data.inheritance, slot_data.range,
         ParseTriggers(slot_data.triggers))

\* DataType(...) and InheritanceType(...) raise ValueError on an unknown name.
SlotDataLoads(slot_data) ==
    slot_data.data_type \in DataType /\ slot_data.inheritance \in InheritanceType

RECURSIVE LoadSlots(_, _, _)
LoadSlots(frame_objects, name, slots) ==
    IF slots = <<>> THEN Result(None, frame_objects, "")
    ELSE IF ~SlotDataLoads(Head(slots)) THEN Result(None, frame_objects, "ValueError")
    ELSE LoadSlots(
            [frame_objects EXCEPT ![name] =
                AddSlot(@, Head(slots).name, LoadSlot(frame_objects, Head(slots)))],
            name, Tail(slots))

\* The second pass over one frame definition: set_ako, then its slots.
LoadFrame(frame_objects, frame_data) ==
    LET linked ==
            IF frame_data.ako # "" /\ frame_data.ako \in DOMAIN frame_objects
            THEN [frame_objects EXCEPT ![frame_data.name] = SetAko(@, frame_data.ako)]
            ELSE frame_objects
    IN  LoadSlots(linked, frame_data.name, frame_data.slots)

RECURSIVE LoadFrames(_, _)
LoadFrames(frame_objects, data) ==
    IF data = <<>> THEN Result(None, frame_objects, "")
    ELSE LET r == LoadFrame(frame_objects, Head(data))
         IN  IF r.err # "" THEN r ELSE LoadFrames(r.fs, Tail(data))

\* load_from_json: the first pass creates every frame, the second fills them.
LoadFromJson(data) ==
    LoadFrames([n \in {data[i].name : i \in DOMAIN data} |-> Frame(n)], data)

\* KnowledgeBase.get_game_frames: the catalog names the knowledge base
\* holds, in the order of game_names.
GetGameFrames(fs) == SelectSeq(game_names, LAMBDA n : n \in DOMAIN fs)

(***************************************************************************)
(* WorkingMemory                                                           *)
(***************************************************************************)
PreferenceKeys ==
    {"imeet_PK", "imeet_Playstation", "imeet_Xbox", "nravyatsya_eksheny",
     "nravyatsya_RPG", "nravyatsya_strategii", "nravyatsya_simulyatory",
     "nravyatsya_priklyucheniya", "imeet_onlajn", "korotkie_sessii"}

\* WorkingMemory.__init__ / clear: user_preferences = {}
NoPreferences == [k \in {} |-> "net"]

\* preferences.get(key): "" stands for the None of a missing key.
PrefGet(preferences, key) ==
    IF key \in DOMAIN preferences THEN preferences[key] ELSE ""

\* TraceEntry(action, frame_name, details); the details a kind of entry
\* does not carry are None.
TraceEntry(action, frame_name, compatibility, platform_match, genre_match) ==
    [action |-> action, frame_name |-> frame_name,
     compatibility |-> compatibility, platform_match |-> platform_match,
     genre_match |-> genre_match]

(***************************************************************************)
(* InferenceEngine                                                         *)
(***************************************************************************)
\* Frame.get_slot_value of a frame object outside the knowledge base (a
\* proto-frame): its own slots, which carry no triggers, then its AKO chain
\* in the knowledge base.
ObjGetSlotValue(fs, obj, s) ==
    LET own == IF s \in DOMAIN obj.slots
               THEN IF obj.slots[s].value = None
                    THEN obj.slots[s].default_value
                    ELSE obj.slots[s].value
               ELSE None
    IN  IF own # None THEN Result(own, fs, "")
        ELSE IF AkoOf(obj) # "" THEN GetSlotValue(fs, AkoOf(obj), s)
        ELSE Result(None, fs, "")

\* Frame.set_slot_value of a proto-frame.
ObjSetSlotValue(obj, s, value) ==
    IF s \notin DOMAIN obj.slots THEN AddSlot(obj, s, NewSlot(value))
    ELSE [obj EXCEPT !.slots[s].value = value]

\* InferenceEngine.set_user_preferences: the ten keys, "net" when missing.
ProcessedPreferences(preferences) ==
    [k \in PreferenceKeys |->
        IF k \in DOMAIN preferences THEN preferences[k] ELSE "net"]

\* InferenceEngine._determine_user_platform
DetermineUserPlatform(preferences) ==
    IF PrefGet(preferences, "imeet_PK") = "da" THEN "PK"
    ELSE IF PrefGet(preferences, "imeet_Playstation") = "da" THEN "Playstation"
    ELSE IF PrefGet(preferences, "imeet_Xbox") = "da" THEN "Xbox"
    ELSE "neizvestno"

\* The genre list with one label for each liked genre: strategies and
\* simulators each append "strategiya".
DetermineAvailableGenresSeparate(preferences) ==
       (IF PrefGet(preferences, "nravyatsya_eksheny") = "da"
        THEN <<"ekshen">> ELSE <<>>)
    \o (IF PrefGet(preferences, "nravyatsya_RPG") = "da"
        THEN <<"RPG">> ELSE <<>>)
    \o (IF PrefGet(preferences, "nravyatsya_strategii") = "da"
        THEN <<"strategiya">> ELSE <<>>)
    \o (IF PrefGet(preferences, "nravyatsya_simulyatory") = "da"
        THEN <<"strategiya">> ELSE <<>>)
    \o (IF PrefGet(preferences, "nravyatsya_priklyucheniya") = "da"
           /\ PrefGet(preferences, "imeet_onlajn") = "da"
        THEN <<"priklyuchenie">> ELSE <<>>)

\* InferenceEngine._determine_available_genres: the list, in append order.
DetermineAvailableGenres(preferences) ==
       (IF PrefGet(preferences, "nravyatsya_eksheny") = "da"
        THEN <<"ekshen">> ELSE <<>>)
    \o (IF PrefGet(preferences, "nravyatsya_RPG") = "da"
        THEN <<"RPG">> ELSE <<>>)
    \o (IF PrefGet(preferences, "nravyatsya_strategii") = "da"
           \/ PrefGet(preferences, "nravyatsya_simulyatory") = "da"
        THEN <<"strategiya">> ELSE <<>>)
    \o (IF PrefGet(preferences, "nravyatsya_priklyucheniya") = "da"
           /\ PrefGet(preferences, "imeet_onlajn") = "da"
        THEN <<"priklyuchenie">> ELSE <<>>)

\* `value in list` for a list of str.
InList(value, list) == \E i \in DOMAIN list : value = Str(list[i])

\* What one criterion of _calculate_compatibility adds to total_possible
\* and to score, in hundredths.
Criterion(possible, achieved) == [possible |-> possible, achieved |-> achieved]
NotApplicable == Criterion(0, 0)

\* The weights and partial credits of _calculate_compatibility, in hundredths.
PlatformWeight == 35
PlatformPartial == 15
GenreWeight == 35
OnlineWeight == 15
OnlinePartial == 10
SessionWeight == 15
SessionPartial == 5

\* The platform check without the comparison with the user's platform: the
\* full weight is earned by a multi-platform game only.
PlatformCriterionUnequal(required_platform, user_platform) ==
    IF ~Truthy(required_platform) THEN NotApplicable
    ELSE IF required_platform = Str("multiplatforma")
    THEN Criterion(PlatformWeight, PlatformWeight)
    ELSE IF user_platform = "PK"
            /\ required_platform \in {Str("Playstation"), Str("Xbox")}
    THEN Criterion(PlatformWeight, PlatformPartial)
    ELSE Criterion(PlatformWeight, 0)

\* The platform check without the partial credit: a PC user earns nothing
\* for a console game.
PlatformCriterionNoPartial(required_platform, user_platform) ==
    IF ~Truthy(required_platform) THEN NotApplicable
    ELSE IF required_platform = Str(user_platform)
            \/ required_platform = Str("multiplatforma")
    THEN Criterion(PlatformWeight, PlatformWeight)
    ELSE Criterion(PlatformWeight, 0)

\* _calculate_compatibility: the platform check.
PlatformCriterion(required_platform, user_platform) ==
    IF ~Truthy(required_platform) THEN NotApplicable
    ELSE IF required_platform = Str(user_platform)
            \/ required_platform = Str("multiplatforma")
    THEN Criterion(PlatformWeight, PlatformWeight)
    ELSE IF user_platform = "PK"
            /\ required_platform \in {Str("Playstation"), Str("Xbox")}
    THEN Criterion(PlatformWeight, PlatformPartial)
    ELSE Criterion(PlatformWeight, 0)

\* _calculate_compatibility: the genre check.
GenreCriterion(required_genre, available_genres) ==
    IF ~Truthy(required_genre) THEN NotApplicable
    ELSE IF InList(required_genre, available_genres)
    THEN Criterion(GenreWeight, GenreWeight)
    ELSE Criterion(GenreWeight, 0)

\* The online check with total_possible raised only where the full weight
\* is earned.
OnlineCriterionUncounted(requires_online, preferences) ==
    LET has_online == PrefGet(preferences, "imeet_onlajn") = "da"
    IN  IF requires_online = None THEN NotApplicable
        ELSE IF (Truthy(requires_online) /\ has_online)
                \/ (~Truthy(requires_online) /\ ~has_online)
        THEN Criterion(OnlineWeight, OnlineWeight)
        ELSE IF ~Truthy(requires_online)
        THEN Criterion(0, OnlinePartial)
        ELSE Criterion(0, 0)

\* The online check with the partial credit for every game that needs no
\* online access, whatever access the user has.
OnlineCriterionFlat(requires_online, preferences) ==
    LET has_online == PrefGet(preferences, "imeet_onlajn") = "da"
    IN  IF requires_online = None THEN NotApplicable
        ELSE IF Truthy(requires_online) /\ has_online
        THEN Criterion(OnlineWeight, OnlineWeight)
        ELSE IF ~Truthy(requires_online)
        THEN Criterion(OnlineWeight, OnlinePartial)
        ELSE Criterion(OnlineWeight, 0)

\* _calculate_compatibility: the online check.
OnlineCriterion(requires_online, preferences) ==
    LET has_online == PrefGet(preferences, "imeet_onlajn") = "da"
    IN  IF requires_online = None THEN NotApplicable
        ELSE IF (Truthy(requires_online) /\ has_online)
                \/ (~Truthy(requires_online) /\ ~has_online)
        THEN Criterion(OnlineWeight, OnlineWeight)
        ELSE IF ~Truthy(requires_online)
        THEN Criterion(OnlineWeight, OnlinePartial)
        ELSE Criterion(OnlineWeight, 0)

\* The session-length check with the two lengths taken for each other.
SessionCriterionSwapped(recommended_length, preferences) ==
    LET user_prefers_short == PrefGet(preferences, "korotkie_sessii") = "da"
    IN  IF ~Truthy(recommended_length) THEN NotApplicable
        ELSE IF (recommended_length = Str("dlinnaya") /\ user_prefers_short)
                \/ (recommended_length = Str("korotkaya") /\ ~user_prefers_short)
        THEN Criterion(SessionWeight, SessionWeight)
        ELSE Criterion(SessionWeight, SessionPartial)

\* _calculate_compatibility: the session-length check.
SessionCriterion(recommended_length, preferences) ==
    LET user_prefers_short == PrefGet(preferences, "korotkie_sessii") = "da"
    IN  IF ~Truthy(recommended_length) THEN NotApplicable
        ELSE IF (recommended_length = Str("korotkaya") /\ user_prefers_short)
                \/ (recommended_length = Str("dlinnaya") /\ ~user_prefers_short)
        THEN Criterion(SessionWeight, SessionWeight)
        ELSE Criterion(SessionWeight, SessionPartial)

\* The rounding of score / total_possible: score and total_possible are
\* binary64 sums of 0.35, 0.15, 0.1 and 0.05 taken in the order platform,
\* genre, online, session, and the quotient is rounded again.  For what the
\* four checks added to score (-1: the check did not apply) the quotient
\* lies one unit in the last place above (UlpAbove) or below (UlpBelow) the
\* binary64 nearest to the exact quotient, and equals it otherwise.
UlpAbove ==
    {<<-1, -1, -1, 5>>, <<-1, -1, 0, 5>>, <<-1, -1, 10, -1>>,
     <<-1, -1, 10, 5>>, <<-1, -1, 15, 5>>, <<0, 0, -1, 5>>,
     <<0, 0, 10, -1>>, <<0, 0, 10, 5>>, <<15, -1, -1, -1>>,
     <<15, 0, -1, -1>>, <<15, 0, -1, 5>>, <<15, 35, -1, 15>>,
     <<15, 35, 15, -1>>, <<15, 35, 15, 5>>}
UlpBelow ==
    {<<-1, 0, 0, 15>>, <<-1, 0, 10, 15>>, <<-1, 0, 15, 15>>,
     <<-1, 35, -1, 5>>, <<-1, 35, 0, 5>>, <<-1, 35, 0, 15>>,
     <<-1, 35, 10, -1>>, <<-1, 35, 10, 5>>, <<-1, 35, 10, 15>>,
     <<0, -1, 0, 15>>, <<0, -1, 10, 15>>, <<0, -1, 15, 15>>,
     <<0, 35, 0, 5>>, <<0, 35, 10, 5>>, <<15, -1, 0, 15>>,
     <<15, -1, 10, 5>>, <<15, -1, 15, 15>>, <<15, 0, 15, 15>>,
     <<35, -1, -1, 5>>, <<35, -1, 0, 5>>, <<35, -1, 0, 15>>,
     <<35, -1, 10, -1>>, <<35, -1, 10, 5>>, <<35, -1, 10, 15>>,
     <<35, 0, 0, 5>>, <<35, 0, 10, 5>>}

Added(c) == IF c.possible = 0 THEN -1 ELSE c.achieved

QuotientUlp(c) ==
    LET added == <<Added(c[1]), Added(c[2]), Added(c[3]), Added(c[4])>>
    IN  IF added \in UlpAbove THEN 1 ELSE IF added \in UlpBelow THEN -1 ELSE 0

\* score / total_possible if total_possible > 0 else 0.0, for the four
\* criteria in the order platform, genre, online, session.
Quotient(c) ==
    LET score == c[1].achieved + c[2].achieved + c[3].achieved + c[4].achieved
        total_possible ==
            c[1].possible + c[2].possible + c[3].possible + c[4].possible
    IN  IF total_possible > 0 THEN Float(score, total_possible, QuotientUlp(c))
        ELSE Float(0, 1, 0)

\* The four criteria from the four values _calculate_compatibility read.
Criteria(v, user_platform, available_genres, preferences) ==
    <<PlatformCriterion(v[1], user_platform),
      GenreCriterion(v[2], available_genres),
      OnlineCriterion(v[3], preferences),
      SessionCriterion(v[4], preferences)>>

\* proto.get_slot_value(n) for each n of slot_names in turn, after the
\* reads `done`.
RECURSIVE ObjReadSlots(_, _, _)
ObjReadSlots(done, obj, slot_names) ==
    IF slot_names = <<>> \/ done.err # "" THEN done
    ELSE ObjReadSlots(Collect(done, ObjGetSlotValue(done.fs, obj, Head(slot_names))),
                      obj, Tail(slot_names))

RequirementSlots ==
    <<"trebuemaya_platforma", "trebuemyj_zhanr", "trebuet_onlajn",
      "rekomenduemaya_dlina_sessii">>

\* The score of InferenceEngine._calculate_compatibility from the reads r
\* of the four requirement slots.
Score(r, user_platform, available_genres, preferences) ==
    IF r.err # "" THEN Result(None, r.fs, r.err)
    ELSE Result(Quotient(Criteria(r.val, user_platform, available_genres,
                                  preferences)),
                r.fs, "")

\* InferenceEngine._calculate_compatibility
CalculateCompatibility(fs, proto_frame, user_platform, available_genres, preferences) ==
    Score(ObjReadSlots(Result(<<>>, fs, ""), proto_frame, RequirementSlots),
          user_platform, available_genres, preferences)

\* The compatibility threshold of frame_based_inference: 0.3.
Threshold == FloatKey(3, 10, 0)

\* The slots frame_based_inference copies from the catalog frame onto the
\* proto-frame: <<slot read, slot written, TRUE when a falsy value is
\* copied too (`is not None`)>>.
CopiedSlots ==
    <<<<"platforma", "trebuemaya_platforma", FALSE>>,
      <<"zhanr", "trebuemyj_zhanr", FALSE>>,
      <<"trebuet_onlajn", "trebuet_onlajn", TRUE>>,
      <<"dlina_sessii", "rekomenduemaya_dlina_sessii", FALSE>>,
      <<"slozhnost", "slozhnost", FALSE>>>>

\* One copy of frame_based_inference: the value r read from the catalog
\* frame is set on the proto-frame when the test of entry c lets it.
\* st.val is the proto-frame as filled and the values read so far.
CopySlot(st, c, r) ==
    IF r.err # "" THEN Result(st.val, r.fs, r.err)
    ELSE Result([proto |-> IF (c[3] /\ r.val # None) \/ (~c[3] /\ Truthy(r.val))
                           THEN ObjSetSlotValue(st.val.proto, c[2], r.val)
                           ELSE st.val.proto,
                 read |-> Append(st.val.read, r.val)],
                r.fs, "")

\* The copying of frame_based_inference, one slot after the other.
RECURSIVE CopySlots(_, _, _)
CopySlots(st, game, copied) ==
    IF copied = <<>> \/ st.err # "" THEN st
    ELSE CopySlots(CopySlot(st, Head(copied),
                            GetSlotValue(st.fs, game, Head(copied)[1])),
                   game, Tail(copied))

\* What frame_based_inference has built so far.
Inference(fs, protos, exos, tr, matched, err) ==
    [fs |-> fs, protos |-> protos, exos |-> exos, trace |-> tr,
     matched |-> matched, err |-> err]

\* The end of a turn of the loop: the proto-frame cp.val.proto was appended
\* to working memory when it was created (the list holds the object, so it
\* shows the proto-frame as the turn left it); with a score cc above the
\* threshold it gets the score, joins matched_frames and is traced.
Match(st, game, cp, cc, platform, available_genres) ==
    IF cc.err = "" /\ cc.val[3] > Threshold
    THEN Inference(cc.fs,
                   Append(st.protos,
                          ObjSetSlotValue(cp.val.proto, "sovmestimost", cc.val)),
                   Append(st.exos, game),
                   st.trace
                    \o <<TraceEntry("add_proto_frame", cp.val.proto.name,
                                    None, None, None),
                         TraceEntry("frame_match", cp.val.proto.name, cc.val,
                                    Bool(cp.val.read[1] = Str(platform)),
                                    Bool(InList(cp.val.read[2], available_genres)))>>,
                   Append(st.matched,
                          ObjSetSlotValue(cp.val.proto, "sovmestimost", cc.val)),
                   "")
    ELSE Inference(cc.fs, Append(st.protos, cp.val.proto), Append(st.exos, game),
                   Append(st.trace,
                          TraceEntry("add_proto_frame", cp.val.proto.name,
                                     None, None, None)),
                   st.matched, cc.err)

\* The scoring of a turn of the loop, after the copies cp.
Evaluate(st, game, cp, platform, available_genres, preferences) ==
    Match(st, game, cp,
          IF cp.err # "" THEN Result(None, cp.fs, cp.err)
          ELSE CalculateCompatibility(cp.fs, cp.val.proto, platform,
                                      available_genres, preferences),
          platform, available_genres)

\* One turn of the loop of frame_based_inference, for catalog frame `game`.
InferGame(st, game, platform, available_genres, preferences) ==
    Evaluate(st, game,
             CopySlots(Result([proto |-> CreateProtoFrame(st.fs[game]),
                               read |-> <<>>], st.fs, ""),
                       game, CopiedSlots),
             platform, available_genres, preferences)

RECURSIVE InferGames(_, _, _, _, _)
InferGames(st, game_frames, platform, available_genres, preferences) ==
    IF game_frames = <<>> \/ st.err # "" THEN st
    ELSE InferGames(InferGame(st, Head(game_frames), platform, available_genres,
                              preferences),
                    Tail(game_frames), platform, available_genres, preferences)

\* The key of the sort and of max: f.get_slot_value("sovmestimost") or 0.
\* Read on a proto-frame that holds the slot, it leaves the knowledge base
\* alone.
SortKey(fs, proto_frame) ==
    NumOrZero(ObjGetSlotValue(fs, proto_frame, "sovmestimost").val)

\* x put into a list behind its first n elements.
InsertAt(list, x, n) ==
    SubSeq(list, 1, n) \o <<x>> \o SubSeq(list, n + 1, Len(list))

\* An unstable descending sort: an element goes ahead of the earlier
\* elements with its key.
InsertBeforeTies(fs, sorted, x) ==
    InsertAt(sorted, x,
             Cardinality({i \in DOMAIN sorted :
                            SortKey(fs, sorted[i]) > SortKey(fs, x)}))

\* list.sort(key=..., reverse=True): descending and stable, so an element
\* goes behind every earlier element whose key is not smaller; in a
\* descending list these are the first elements, and n counts them.
InsertSorted(fs, sorted, x) ==
    InsertAt(sorted, x,
             Cardinality({i \in DOMAIN sorted :
                            SortKey(fs, sorted[i]) >= SortKey(fs, x)}))

RECURSIVE SortDescending(_, _)
SortDescending(fs, list) ==
    IF list = <<>> THEN <<>>
    ELSE InsertSorted(fs, SortDescending(fs, SubSeq(list, 1, Len(list) - 1)),
                      list[Len(list)])

\* InferenceEngine.frame_based_inference on working memory (protos, exos,
\* tr) and knowledge base fs.
FrameBasedInferenceOf(fs, preferences, protos, exos, tr) ==
    InferGames(Inference(fs, protos, exos, tr, <<>>, ""), GetGameFrames(fs),
               DetermineUserPlatform(preferences),
               DetermineAvailableGenres(preferences), preferences)

\* proto.get_slot_value(s) for each proto-frame of a list in turn, after
\* the reads `done`.
RECURSIVE ObjReadEach(_, _, _)
ObjReadEach(done, protos, s) ==
    IF protos = <<>> \/ done.err # "" THEN done
    ELSE ObjReadEach(Collect(done, ObjGetSlotValue(done.fs, Head(protos), s)),
                     Tail(protos), s)

\* max(proto_frames, key=...): the first of the proto-frames whose key is
\* largest; keys are the values read for the key of each.
FirstMaximum(keys) ==
    CHOOSE i \in DOMAIN keys :
        /\ \A j \in DOMAIN keys : NumOrZero(keys[j]) <= NumOrZero(keys[i])
        /\ \A j \in 1..(i - 1) : NumOrZero(keys[j]) < NumOrZero(keys[i])

\* The name get_best_recommendation returns after max() read `keys`.
BestName(protos, keys) ==
    IF keys.err # "" THEN Result(None, keys.fs, keys.err)
    ELSE IF AkoOf(protos[FirstMaximum(keys.val)]) # ""
    THEN Result(Str(AkoOf(protos[FirstMaximum(keys.val)])), keys.fs, "")
    ELSE Result(None, keys.fs, "")

\* InferenceEngine.get_best_recommendation on the proto-frames of working
\* memory.
GetBestRecommendationOf(fs, protos) ==
    IF protos = <<>> THEN Result(None, fs, "")
    ELSE BestName(protos, ObjReadEach(Result(<<>>, fs, ""), protos, "sovmestimost"))

\* One record of get_all_recommendations.
Recommendation(game, compatibility, platform, genre, session_length) ==
    [game |-> game, compatibility |-> compatibility, platform |-> platform,
     genre |-> genre, session_length |-> session_length]

\* The slots get_all_recommendations reads from a proto-frame: the three
\* requirement slots are read only when the record is built.
RecommendationSlots(proto) ==
    IF AkoOf(proto) # ""
    THEN <<"sovmestimost", "trebuemaya_platforma", "trebuemyj_zhanr",
           "rekomenduemaya_dlina_sessii">>
    ELSE <<"sovmestimost">>

\* The records so far with the record of `proto`, built from the reads r.
Recommend(done, proto, r) ==
    Result(IF r.err = "" /\ AkoOf(proto) # ""
           THEN Append(done.val,
                       Recommendation(AkoOf(proto), NumOrZero(r.val[1]), r.val[2],
                                      r.val[3], r.val[4]))
           ELSE done.val,
           r.fs, r.err)

\* The loop of get_all_recommendations over `protos`, after the records
\* `done`.
RECURSIVE RecommendationsOf(_, _)
RecommendationsOf(done, protos) ==
    IF protos = <<>> \/ done.err # "" THEN done
    ELSE RecommendationsOf(
            Recommend(done, Head(protos),
                      ObjReadSlots(Result(<<>>, done.fs, ""), Head(protos),
                                   RecommendationSlots(Head(protos)))),
            Tail(protos))

\* list[:limit] for limit >= 0
Prefix(list, limit) == SubSeq(list, 1, IF limit < Len(list) THEN limit ELSE Len(list))

\* InferenceEngine.get_all_recommendations, over proto_frames[:limit].
GetAllRecommendationsOf(fs, protos, limit) ==
    RecommendationsOf(Result(<<>>, fs, ""), Prefix(protos, limit))

(***************************************************************************)
(* ExplanationComponent                                                    *)
(***************************************************************************)
\* `value or default`
OrElse(value, default) == IF Truthy(value) THEN value ELSE default

\* The explanation text of explain_recommendation, as the facts it prints;
\* found is FALSE for the not-found message.  online_match is None when the
\* online line is left out.
NotFound(game_name) ==
    [found |-> FALSE, game |-> game_name, compatibility |-> 0,
     platform_match |-> None, genre_match |-> None, session_match |-> None,
     online_match |-> None, similar_games |-> None]

\* The slots explain_recommendation reads from the proto-frame, in the
\* order it reads them.
ExplainedSlots ==
    <<"sovmestimost", "trebuemaya_platforma", "trebuemyj_zhanr",
      "rekomenduemaya_dlina_sessii", "trebuet_onlajn">>

\* The explanation explain_recommendation builds from the reads r.
Explanation(r, preferences, game_name) ==
    LET required_platform == OrElse(r.val[2], Str("lyubaya"))
        required_genre == OrElse(r.val[3], Str("lyuboj"))
        session_length == OrElse(r.val[4], Str("lyubaya"))
        requires_online == r.val[5]
        user_platform == DetermineUserPlatform(preferences)
        available_genres == DetermineAvailableGenres(preferences)
        user_prefers_short == PrefGet(preferences, "korotkie_sessii") = "da"
        has_online == PrefGet(preferences, "imeet_onlajn") = "da"
    IN  IF r.err # "" THEN Result(None, r.fs, r.err)
        ELSE Result(
            [found |-> TRUE, game |-> game_name,
             compatibility |-> NumOrZero(r.val[1]),
             platform_match |->
                Bool(required_platform = Str(user_platform)
                     \/ required_platform = Str("multiplatforma")),
             genre_match |-> Bool(InList(required_genre, available_genres)),
             session_match |->
                Bool((session_length = Str("korotkaya") /\ user_prefers_short)
                     \/ (session_length = Str("dlinnaya") /\ ~user_prefers_short)),
             online_match |->
                IF requires_online = None THEN None
                ELSE Bool((Truthy(requires_online) /\ has_online)
                          \/ ~Truthy(requires_online)),
             similar_games |-> SuggestSimilarGames(game_name)],
            r.fs, "")

\* The proto-frames of working memory whose AKO frame is named game_name.
ProtosOf(protos, game_name) == {i \in DOMAIN protos : AkoOf(protos[i]) = game_name}

\* ExplanationComponent.explain_recommendation: the first such proto-frame
\* is explained.
ExplainRecommendationOf(fs, protos, preferences, game_name) ==
    IF ProtosOf(protos, game_name) = {} THEN Result(NotFound(game_name), fs, "")
    ELSE Explanation(
            ObjReadSlots(Result(<<>>, fs, ""),
                         protos[CHOOSE i \in ProtosOf(protos, game_name) :
                                  \A j \in ProtosOf(protos, game_name) : i <= j],
                         ExplainedSlots),
            preferences, game_name)

\* KnowledgeBase.get_frame: self.frames.get(name)
GetFrame(fs, name) == IF name \in DOMAIN fs THEN FrameRef(name) ELSE None

\* The call r made after the calls of st, leaving val as the value built.
After(st, r, val) ==
    [val |-> val, fs |-> r.fs, err |-> r.err, fired |-> st.fired \o r.fired]

\* A loop over the AKO links that comes back to a frame it left walks the
\* same links again without end: the call does not return ("loops"; where
\* the loop appends to a list, until memory is exhausted).
\* explain_frame_hierarchy: the loop, at frame `current` with the entries
\* `hierarchy` appended so far; level is one more with every step, the
\* number of entries appended before.  An AKO value that is truthy and no
\* Frame becomes `current`, and `current.name` raises AttributeError.
RECURSIVE HierarchyFrom(_, _, _, _)
HierarchyFrom(fs, current, hierarchy, seen) ==
    IF current \in seen THEN Result(hierarchy, fs, "loops")
    ELSE IF ~Truthy(fs[current].slots["AKO"].value)
    THEN Result(Append(hierarchy, <<Len(hierarchy), current>>), fs, "")
    ELSE IF fs[current].slots["AKO"].value[1] # "Frame"
    THEN Result(Append(hierarchy, <<Len(hierarchy), current>>), fs, "AttributeError")
    ELSE HierarchyFrom(fs, fs[current].slots["AKO"].value[2],
                       Append(hierarchy, <<Len(hierarchy), current>>),
                       seen \cup {current})

\* The text of explain_frame_hierarchy with the ancestors alone, the frame
\* asked about left out.
HierarchyOfAncestors(frame_name, found, r) ==
    Result(IF r.err = ""
           THEN [found |-> found, frame |-> frame_name,
                 hierarchy |-> IF r.val = <<>> THEN <<>> ELSE Tail(r.val)]
           ELSE None,
           r.fs, r.err)

\* The text of explain_frame_hierarchy, as the facts it prints.
Hierarchy(frame_name, found, r) ==
    Result(IF r.err = "" THEN [found |-> found, frame |-> frame_name, hierarchy |-> r.val]
           ELSE None,
           r.fs, r.err)

\* ExplanationComponent.explain_frame_hierarchy
ExplainFrameHierarchyOf(fs, frame_name) ==
    IF GetFrame(fs, frame_name) = None
    THEN Hierarchy(frame_name, FALSE, Result(<<>>, fs, ""))
    ELSE Hierarchy(frame_name, TRUE, HierarchyFrom(fs, frame_name, <<>>, {}))

\* explain_slot_inheritance: parent_slot.get_value(ako) is called a second
\* time when the first call returned a value; `again` is that second call,
\* and its value is appended with the parent's name.
ParentReadAgain(st, parent, again) ==
    After(st, again,
          IF again.err = "" THEN Append(st.val, <<parent, again.val>>) ELSE st.val)

\* explain_slot_inheritance: the step of the loop at a parent that holds
\* the slot, `first` being the first parent_slot.get_value(ako).
ParentRead(st, parent, s, first) ==
    IF first.err # "" \/ first.val = None THEN After(st, first, st.val)
    ELSE ParentReadAgain(After(st, first, st.val), parent,
                         SlotGetValue(first.fs, parent, s, {}))

\* explain_slot_inheritance: the loop, at frame `current` with the chain
\* st.val collected so far.  An AKO value that is truthy and no Frame has
\* no get_slot: AttributeError.
RECURSIVE InheritanceChainFrom(_, _, _, _)
InheritanceChainFrom(st, current, s, seen) ==
    IF st.err # "" THEN st
    ELSE IF current \in seen THEN [st EXCEPT !.err = "loops"]
    ELSE IF ~Truthy(st.fs[current].slots["AKO"].value) THEN st
    ELSE IF st.fs[current].slots["AKO"].value[1] # "Frame"
    THEN [st EXCEPT !.err = "AttributeError"]
    ELSE InheritanceChainFrom(
            IF s \in DOMAIN st.fs[st.fs[current].slots["AKO"].value[2]].slots
            THEN ParentRead(st, st.fs[current].slots["AKO"].value[2], s,
                            SlotGetValue(st.fs, st.fs[current].slots["AKO"].value[2],
                                         s, {}))
            ELSE st,
            st.fs[current].slots["AKO"].value[2], s, seen \cup {current})

\* The text of explain_slot_inheritance, as the facts it prints: kind is
\* "frame_not_found", "local" (the local value alone), "inherited" (the
\* chain of <<parent name, value>> and the final value, the last of the
\* chain) or "not_found".
SlotInheritance(kind, local, chain) ==
    [kind |-> kind, local |-> local, chain |-> chain,
     final |-> IF chain # <<>> THEN chain[Len(chain)][2] ELSE None]

\* explain_slot_inheritance after the loop collected the chain c.
Inherited(c) ==
    IF c.err # "" THEN [c EXCEPT !.val = None]
    ELSE [c EXCEPT !.val = SlotInheritance(IF c.val # <<>> THEN "inherited"
                                           ELSE "not_found", None, c.val)]

\* explain_slot_inheritance without the return at the local value: the
\* ancestors are walked whatever the frame itself holds.
ExplainFromAncestors(r, frame_name, s) ==
    IF r.err # "" THEN [r EXCEPT !.val = None]
    ELSE Inherited(InheritanceChainFrom([r EXCEPT !.val = <<>>], frame_name, s, {}))

\* explain_slot_inheritance after value = frame.get_slot_value(slot_name)
\* returned r: the local slot's stored value alone when it is not None,
\* the walk over the ancestors otherwise.
ExplainFrom(r, frame_name, s) ==
    IF r.err # "" THEN [r EXCEPT !.val = None]
    ELSE IF s \in DOMAIN r.fs[frame_name].slots
            /\ r.fs[frame_name].slots[s].value # None
    THEN [r EXCEPT !.val = SlotInheritance("local", r.fs[frame_name].slots[s].value, <<>>)]
    ELSE Inherited(InheritanceChainFrom([r EXCEPT !.val = <<>>], frame_name, s, {}))

\* ExplanationComponent.explain_slot_inheritance
ExplainSlotInheritanceOf(fs, frame_name, s) ==
    IF GetFrame(fs, frame_name) = None
    THEN Result(SlotInheritance("frame_not_found", None, <<>>), fs, "")
    ELSE ExplainFrom(GetSlotValue(fs, frame_name, s), frame_name, s)

(***************************************************************************)
(* Knowledge files.  The slot definitions the shipped file repeats:        *)
(***************************************************************************)
TextSlot(name, text) == SlotData(name, "TEXT", "S", Str(text), {}, <<>>)
SessionSlot(text) ==
    SlotData("dlina_sessii", "TEXT", "S", Str(text), {},
             <<<<"IF-ADDED", "validate_session_length">>>>)
OnlineSlot(b) == SlotData("trebuet_onlajn", "BOOLEAN", "S", Bool(b), {}, <<>>)
AkoSlot(parent_name) == SlotData("AKO", "FRAME", "S", Ref(parent_name), {}, <<>>)

\* create_json_knowledge_base: knowledge_base["frames"].
ShippedData ==
    <<FrameData("Igra", "",
        <<SlotData("nazvanie", "TEXT", "U", None, {}, <<>>),
          SlotData("razrabotchik", "TEXT", "O", None, {}, <<>>),
          SlotData("god_vypuska", "INTEGER", "O", None, {}, <<>>)>>),
      FrameData("Igra_dlya_PK", "Igra",
        <<SlotData("platforma", "TEXT", "S", Str("PK"), {Str("PK")}, <<>>),
          SlotData("trebovaniya_k_zhelezu", "TEXT", "O", None, {}, <<>>)>>),
      FrameData("Konsolnaya_igra", "Igra",
        <<SlotData("platforma", "TEXT", "O", None,
             {Str("Playstation"), Str("Xbox"), Str("multiplatforma")}, <<>>)>>),
      FrameData("Ekshen", "Igra",
        <<TextSlot("zhanr", "ekshen"),
          SlotData("temp", "TEXT", "O", None,
             {Str("bystryj"), Str("umerennyj"), Str("medlennyj")}, <<>>)>>),
      FrameData("RPG", "Igra",
        <<TextSlot("zhanr", "RPG"),
          SlotData("sistema_prokachki", "TEXT", "O", None, {}, <<>>)>>),
      FrameData("Strategiya", "Igra",
        <<TextSlot("zhanr", "strategiya"),
          SlotData("tip_strategii", "TEXT", "O", None,
             {Str("poshagovaya"), Str("realnogo vremeni")}, <<>>)>>),
      FrameData("Priklyuchenie", "Igra",
        <<TextSlot("zhanr", "priklyuchenie"),
          SlotData("syuzhetnaya_napravlennost", "TEXT", "O", None,
             {Str("linejnaya"), Str("nelinejnaya"), Str("otkrytyj mir")}, <<>>)>>),
      FrameData("Counter-Strike", "Ekshen",
        <<AkoSlot("Igra_dlya_PK"),
          SessionSlot("korotkaya"),
          OnlineSlot(TRUE),
          TextSlot("slozhnost", "vysokaya"),
          SlotData("prichina_rekomendacii", "TEXT", "O", None, {},
                   <<<<"IF-NEEDED", "get_recommendation_reason">>>>)>>),
      FrameData("Battlefield", "Ekshen",
        <<AkoSlot("Igra_dlya_PK"),
          SessionSlot("dlinnaya"),
          OnlineSlot(TRUE),
          TextSlot("slozhnost", "srednyaya")>>),
      FrameData("Halo", "Ekshen",
        <<AkoSlot("Konsolnaya_igra"),
          TextSlot("platforma", "Xbox"),
          SessionSlot("korotkaya"),
          OnlineSlot(TRUE)>>),
      FrameData("God_of_War", "Ekshen",
        <<AkoSlot("Konsolnaya_igra"),
          TextSlot("platforma", "Playstation"),
          SessionSlot("dlinnaya"),
          OnlineSlot(FALSE)>>),
      FrameData("The_Witcher", "RPG",
        <<AkoSlot("Igra_dlya_PK"),
          SessionSlot("korotkaya"),
          OnlineSlot(FALSE),
          TextSlot("slozhnost", "srednyaya")>>),
      FrameData("Skyrim", "RPG",
        <<AkoSlot("Igra_dlya_PK"),
          SessionSlot("dlinnaya"),
          OnlineSlot(FALSE),
          TextSlot("slozhnost", "nizkaya")>>),
      FrameData("Final_Fantasy", "RPG",
        <<AkoSlot("Konsolnaya_igra"),
          TextSlot("platforma", "multiplatforma"),
          SessionSlot("korotkaya"),
          OnlineSlot(FALSE)>>),
      FrameData("Age_of_Empires", "Strategiya",
        <<AkoSlot("Igra_dlya_PK"),
          SessionSlot("korotkaya"),
          TextSlot("tip_strategii", "realnogo vremeni"),
          OnlineSlot(FALSE)>>),
      FrameData("Civilization", "Strategiya",
        <<AkoSlot("Igra_dlya_PK"),
          SessionSlot("dlinnaya"),
          TextSlot("tip_strategii", "poshagovaya"),
          OnlineSlot(FALSE)>>),
      FrameData("XCOM", "Strategiya",
        <<AkoSlot("Konsolnaya_igra"),
          TextSlot("platforma", "multiplatforma"),
          SessionSlot("korotkaya"),
          TextSlot("tip_strategii", "poshagovaya")>>),
      FrameData("Batman_Arkham", "Priklyuchenie",
        <<AkoSlot("Igra_dlya_PK"),
          SessionSlot("korotkaya"),
          OnlineSlot(FALSE),
          TextSlot("syuzhetnaya_napravlennost", "otkrytyj mir")>>),
      FrameData("Uncharted", "Priklyuchenie",
        <<AkoSlot("Konsolnaya_igra"),
          TextSlot("platforma", "Playstation"),
          SessionSlot("korotkaya"),
          TextSlot("syuzhetnaya_napravlennost", "linejnaya")>>),
      FrameData("The_Legend_of_Zelda", "Priklyuchenie",
        <<AkoSlot("Konsolnaya_igra"),
          TextSlot("platforma", "multiplatforma"),
          SessionSlot("dlinnaya"),
          TextSlot("syuzhetnaya_napravlennost", "otkrytyj mir")>>)>>
\* The genre frame of a small knowledge file.
EkshenData == FrameData("Ekshen", "", <<TextSlot("zhanr", "ekshen")>>)

\* The permissible platforms the shipped file gives a console game.
ConsoleRange == {Str("Playstation"), Str("Xbox"), Str("multiplatforma")}

(***************************************************************************)
(* The calls of the command-line session (main), as actions.               *)
(***************************************************************************)
\* The last call: the operation, its arguments, the value it returned, the
\* exception it raised ("" when it returned) and the trigger procedures it
\* called.
Returned(op, arg, val, err) ==
    [op |-> op, arg |-> arg, val |-> val, err |-> err, fired |-> <<>>]

\* KnowledgeBase() and load_from_json(data), then InferenceEngine(kb):
\* the knowledge base as loaded and an empty working memory; the call
\* recorded is the load, with the knowledge file as its argument.
Loaded(data) ==
    /\ frames = LoadFromJson(data).fs
    /\ user_preferences = NoPreferences
    /\ proto_frames = <<>>
    /\ exo_frames = <<>>
    /\ trace = <<>>
    /\ matched_frames = <<>>
    /\ NoRuleEngine
    /\ ret = Returned("load_from_json", data, None, LoadFromJson(data).err)

\* How many entries of the trace record `action`.
Count(tr, action) == Cardinality({i \in DOMAIN tr : tr[i].action = action})

\* The bounds of a session: the catalog games of a small knowledge file,
\* the inference runs and the largest limit asked for.
MaxGames == 2
MaxRuns == 2
MaxLimit == 2

\* InferenceEngine.set_user_preferences -> WorkingMemory.set_preferences
SetUserPreferences(preferences) ==
    /\ Count(trace, "set_preferences") < MaxRuns
    /\ user_preferences' = ProcessedPreferences(preferences)
    /\ trace' = Append(trace, TraceEntry("set_preferences", "System", None, None, None))
    /\ ret' = Returned("set_user_preferences", None, None, "")
    /\ UNCHANGED <<rules, facts, counter,
                   frames, proto_frames, exo_frames, matched_frames>>

\* InferenceEngine.frame_based_inference
FrameBasedInference ==
    /\ Len(exo_frames) < MaxRuns * Len(GetGameFrames(frames))
    /\ \E st \in {FrameBasedInferenceOf(frames, user_preferences, proto_frames,
                                        exo_frames, trace)} :
           /\ frames' = st.fs
           /\ proto_frames' = st.protos
           /\ exo_frames' = st.exos
           /\ trace' = st.trace
           /\ matched_frames' =
                 IF st.err = "" THEN SortDescending(st.fs, st.matched) ELSE <<>>
           /\ ret' = Returned("frame_based_inference", None, None, st.err)
    /\ UNCHANGED <<rules, facts, counter, user_preferences>>

\* InferenceEngine.get_best_recommendation
GetBestRecommendation ==
    /\ \E r \in {GetBestRecommendationOf(frames, proto_frames)} :
           /\ frames' = r.fs
           /\ ret' = Returned("get_best_recommendation", None, r.val, r.err)
    /\ UNCHANGED <<rules, facts, counter,
                   user_preferences, proto_frames, exo_frames, trace, matched_frames>>

\* InferenceEngine.get_all_recommendations
GetAllRecommendations(limit) ==
    /\ \E r \in {GetAllRecommendationsOf(frames, proto_frames, limit)} :
           /\ frames' = r.fs
           /\ ret' = Returned("get_all_recommendations", limit, r.val, r.err)
    /\ UNCHANGED <<rules, facts, counter,
                   user_preferences, proto_frames, exo_frames, trace, matched_frames>>

\* ExplanationComponent.explain_recommendation
ExplainRecommendation(game_name) ==
    /\ \E r \in {ExplainRecommendationOf(frames, proto_frames, user_preferences,
                                         game_name)} :
           /\ frames' = r.fs
           /\ ret' = Returned("explain_recommendation", game_name, r.val, r.err)
    /\ UNCHANGED <<rules, facts, counter,
                   user_preferences, proto_frames, exo_frames, trace, matched_frames>>

\* InferenceEngine.reset -> WorkingMemory.clear; the list the last run
\* returned is dropped with it.
Reset ==
    /\ user_preferences' = NoPreferences
    /\ proto_frames' = <<>>
    /\ exo_frames' = <<>>
    /\ trace' = <<>>
    /\ matched_frames' = <<>>
    /\ ret' = Returned("reset", None, None, "")
    /\ UNCHANGED <<rules, facts, counter, frames>>

(***************************************************************************)
(* Spec: sessions of the inference engine on small knowledge files, with   *)
(* up to MaxGames catalog games, each declared in one of a few ways the    *)
(* file format allows.                                                     *)
(***************************************************************************)
\* The ways a catalog game is declared: an action game for the PC played
\* online in short sessions; one played in long sessions whose platform is
\* computed on demand; a console game that needs no online access; a
\* multi-platform game; a game that declares nothing.
GameDeclarations(name) ==
    {FrameData(name, "Ekshen",
               <<TextSlot("platforma", "PK"), SessionSlot("korotkaya"),
                 OnlineSlot(TRUE), TextSlot("slozhnost", "vysokaya")>>),
     FrameData(name, "Ekshen",
               <<SlotData("platforma", "TEXT", "O", None, {},
                          <<<<"IF-NEEDED", "determine_platform">>>>),
                 SessionSlot("dlinnaya"), OnlineSlot(TRUE)>>),
     FrameData(name, "",
               <<TextSlot("platforma", "Xbox"), SessionSlot("dlinnaya"),
                 OnlineSlot(FALSE)>>),
     FrameData(name, "",
               <<TextSlot("platforma", "multiplatforma"), SessionSlot("korotkaya")>>),
     FrameData(name, "", <<>>)}

RECURSIVE GameLists(_)
GameLists(n) ==
    IF n = 0 THEN {<<>>}
    ELSE {Append(l, d) : l \in GameLists(n - 1), d \in GameDeclarations(game_names[n])}

KnowledgeFiles ==
    UNION {{<<EkshenData>> \o l : l \in GameLists(n)} : n \in 1..MaxGames}

\* The preference mappings handed to set_user_preferences: the answers for
\* some of the ten keys, the others left out.
AnsweredKeys == {"imeet_PK", "nravyatsya_eksheny", "korotkie_sessii"}
PreferenceInputs == [AnsweredKeys -> {"da", "net"}]

\* The game names asked about: the catalog's and one no catalog holds.
AskedNames == {game_names[i] : i \in 1..MaxGames} \cup {"Tetris"}

Init == \E data \in KnowledgeFiles : Loaded(data)

Next ==
    \/ \E preferences \in PreferenceInputs : SetUserPreferences(preferences)
    \/ FrameBasedInference
    \/ GetBestRecommendation
    \/ \E limit \in 0..MaxLimit : GetAllRecommendations(limit)
    \/ \E game_name \in AskedNames : ExplainRecommendation(game_name)
    \/ Reset

Spec == Init /\ [][Next]_vars

(***************************************************************************)
(* SpecShipped: sessions on the shipped knowledge file.                    *)
(***************************************************************************)
\* The answers that vary; every other question is answered "net".
ShippedAnswers == {"imeet_PK", "nravyatsya_eksheny", "imeet_onlajn", "korotkie_sessii"}
ShippedPreferences ==
    {[k \in PreferenceKeys |-> IF k \in yes THEN "da" ELSE "net"] :
        yes \in SUBSET ShippedAnswers}

ShippedInit == Loaded(ShippedData)

ShippedNext ==
    \/ \E preferences \in ShippedPreferences : SetUserPreferences(preferences)
    \/ FrameBasedInference
    \/ GetBestRecommendation
    \/ Reset

SpecShipped == ShippedInit /\ [][ShippedNext]_vars

(***************************************************************************)
(* SpecScore: _calculate_compatibility on the proto-frame of one catalog   *)
(* game after an inference run, for every way the game declares the four   *)
(* requirements, and every user platform, genre list and preference        *)
(* mapping of the sets below.                                              *)
(***************************************************************************)
ScoredPlatforms == {"", "PK", "Xbox", "multiplatforma"}
ScoredGenres == {"", "Ekshen"}
ScoredOnline == {None, PyTrue, PyFalse}
ScoredSessions == {"", "korotkaya", "dlinnaya", "srednyaya"}

\* The definition of a catalog game with these requirements ("" and None:
\* not declared).
ScoredGame(platform, genre, online, session) ==
    FrameData("Counter-Strike", genre,
                 (IF platform # "" THEN <<TextSlot("platforma", platform)>> ELSE <<>>)
              \o (IF online # None THEN <<OnlineSlot(online = PyTrue)>> ELSE <<>>)
              \o (IF session # "" THEN <<SessionSlot(session)>> ELSE <<>>))

ScoredFiles ==
    {<<EkshenData, ScoredGame(platform, genre, online, session)>> :
        platform \in ScoredPlatforms, genre \in ScoredGenres,
        online \in ScoredOnline, session \in ScoredSessions}

ScoreAnswers == {"imeet_onlajn", "korotkie_sessii"}
ScorePreferences == [ScoreAnswers -> {"da", "net"}]
UserPlatforms == {"PK", "Xbox", "neizvestno"}
GenreLists == {<<>>, <<"ekshen">>, <<"RPG", "strategiya">>}

\* The session after load_from_json(data), set_user_preferences(preferences)
\* and frame_based_inference().
Inferred(data, preferences) ==
    \E st \in {FrameBasedInferenceOf(
                    LoadFromJson(data).fs, ProcessedPreferences(preferences),
                    <<>>, <<>>,
                    <<TraceEntry("set_preferences", "System", None, None, None)>>)} :
        /\ frames = st.fs
        /\ user_preferences = ProcessedPreferences(preferences)
        /\ proto_frames = st.protos
        /\ exo_frames = st.exos
        /\ trace = st.trace
        /\ matched_frames = SortDescending(st.fs, st.matched)
        /\ NoRuleEngine
        /\ ret = Returned("frame_based_inference", None, None, st.err)

ScoreInit ==
    \E data \in ScoredFiles, preferences \in ScorePreferences :
        Inferred(data, preferences)

\* InferenceEngine._calculate_compatibility(proto_frames[i], user_platform,
\* available_genres, preferences)
CalculateCompatibilityCall(i, user_platform, available_genres) ==
    /\ i \in DOMAIN proto_frames
    /\ \E r \in {CalculateCompatibility(frames, proto_frames[i], user_platform,
                                        available_genres, user_preferences)} :
           /\ frames' = r.fs
           /\ ret' = Returned("_calculate_compatibility",
                              <<i, user_platform, available_genres>>, r.val, r.err)
    /\ UNCHANGED <<rules, facts, counter,
                   user_preferences, proto_frames, exo_frames, trace, matched_frames>>

ScoreNext ==
    \E i \in DOMAIN proto_frames, user_platform \in UserPlatforms,
       available_genres \in GenreLists :
        CalculateCompatibilityCall(i, user_platform, available_genres)

SpecScore == ScoreInit /\ [][ScoreNext]_vars

(***************************************************************************)
(* SpecFrame: get_slot_value, set_slot_value and remove_value on the       *)
(* frames of a loaded knowledge base: a PC-game frame and a catalog game   *)
(* below it, whose platform slot and computed slot are declared in the     *)
(* ways the file format allows.                                            *)
(***************************************************************************)
\* Igra_dlya_PK as the shipped file declares its platform.
ParentData ==
    FrameData("Igra_dlya_PK", "",
              <<SlotData("platforma", "TEXT", "S", Str("PK"), {Str("PK")}, <<>>)>>)

\* The platform slot of the game: left out; a console; declared empty with
\* the console range, as Konsolnaya_igra declares it; a value the range
\* does not hold; computed on demand, with a range that holds the computed
\* value and with one that does not.
PlatformDeclarations ==
    {<<>>,
     <<SlotData("platforma", "TEXT", "S", Str("Xbox"), ConsoleRange, <<>>)>>,
     <<SlotData("platforma", "TEXT", "O", None, ConsoleRange, <<>>)>>,
     <<SlotData("platforma", "TEXT", "S", Str("Sega"), ConsoleRange, <<>>)>>,
     <<SlotData("platforma", "TEXT", "O", None, {Str("PK")},
                <<<<"IF-NEEDED", "determine_platform">>>>)>>,
     <<SlotData("platforma", "TEXT", "O", None, ConsoleRange,
                <<<<"IF-NEEDED", "determine_platform">>>>)>>}

\* The computed slot of the game: left out; the recommendation reason, as
\* the shipped file declares it; the similar games, a list computed for a
\* text slot; the compatibility, a number.
ComputedDeclarations ==
    {<<>>,
     <<SlotData("prichina_rekomendacii", "TEXT", "O", None, {},
                <<<<"IF-NEEDED", "get_recommendation_reason">>>>)>>,
     <<SlotData("pohozhie_igry", "TEXT", "O", None, {},
                <<<<"IF-NEEDED", "suggest_similar_games">>>>)>>,
     <<SlotData("sovmestimost", "INTEGER", "O", None, {},
                <<<<"IF-NEEDED", "calculate_compatibility">>>>)>>}

FrameFiles ==
    {<<ParentData,
       FrameData("Halo", "Igra_dlya_PK",
                 platform \o <<SessionSlot("korotkaya")>> \o computed)>> :
        platform \in PlatformDeclarations, computed \in ComputedDeclarations}

FrameNames == {"Igra_dlya_PK", "Halo"}
ReadSlotNames ==
    {"platforma", "dlina_sessii", "prichina_rekomendacii", "pohozhie_igry",
     "sovmestimost"}
WrittenSlotNames == {"platforma", "dlina_sessii"}
WrittenValues == {Str("Xbox"), Str("korotkaya"), PyTrue}

FrameInit == \E data \in FrameFiles : Loaded(data)

\* frame.get_slot_value(slot_name)
GetSlotValueCall(f, s) ==
    /\ \E r \in {GetSlotValue(frames, f, s)} :
           /\ frames' = r.fs
           /\ ret' = Fired(r.fired, Returned("get_slot_value", <<f, s>>, r.val, r.err))
    /\ UNCHANGED <<rules, facts, counter,
                   user_preferences, proto_frames, exo_frames, trace, matched_frames>>

\* frame.set_slot_value(slot_name, value)
SetSlotValueCall(f, s, value) ==
    /\ \E r \in {SetSlotValue(frames, f, s, value)} :
           /\ frames' = r.fs
           /\ ret' = Fired(r.fired,
                           Returned("set_slot_value", <<f, s, value>>, None, r.err))
    /\ UNCHANGED <<rules, facts, counter,
                   user_preferences, proto_frames, exo_frames, trace, matched_frames>>

\* frame.slots[slot_name].remove_value(frame), the clear operation
RemoveValueCall(f, s) ==
    /\ s \in DOMAIN frames[f].slots
    /\ \E r \in {SlotRemoveValue(frames, f, s)} :
           /\ frames' = r.fs
           /\ ret' = Fired(r.fired, Returned("remove_value", <<f, s>>, None, r.err))
    /\ UNCHANGED <<rules, facts, counter,
                   user_preferences, proto_frames, exo_frames, trace, matched_frames>>

FrameNext ==
    \/ \E f \in FrameNames, s \in ReadSlotNames : GetSlotValueCall(f, s)
    \/ \E s \in WrittenSlotNames, value \in WrittenValues :
          SetSlotValueCall("Halo", s, value)
    \/ \E s \in WrittenSlotNames : RemoveValueCall("Halo", s)

SpecFrame == FrameInit /\ [][FrameNext]_vars

(***************************************************************************)
(* SpecChain: the reads that walk the AKO links, on knowledge files with   *)
(* three frames, Halo below Ekshen below Igra, linked and filled in the    *)
(* ways the loader accepts: get_frame, get_slot_value, is_a,               *)
(* explain_slot_inheritance and explain_frame_hierarchy.                   *)
(***************************************************************************)
\* The `ako` key of Igra: absent (a root), Halo (the links form a cycle),
\* Igra itself.
RootLinks == {"", "Halo", "Igra"}

\* The link of Halo: the `ako` key; a slot named AKO whose value is the
\* plain string "Ekshen", not a "!ref:" reference; a slot named AKO that
\* refers to a frame the file does not hold.
ChildLinks ==
    {<<"Ekshen", <<>>>>,
     <<"", <<SlotData("AKO", "FRAME", "S", Str("Ekshen"), {}, <<>>)>>>>,
     <<"", <<SlotData("AKO", "FRAME", "S", Ref("Tetris"), {}, <<>>)>>>>}

\* The genre slot of Igra, of Ekshen and of Halo: left out, declared
\* without a value, or holding a value.
RootGenres == {<<>>, <<TextSlot("zhanr", "igra")>>}
ParentGenres ==
    {<<SlotData("zhanr", "TEXT", "S", None, {}, <<>>)>>,
     <<TextSlot("zhanr", "ekshen")>>}
ChildGenres == {<<>>, <<TextSlot("zhanr", "shuter")>>}

\* The computed slot of Halo: left out; the recommendation reason as the
\* shipped file declares it; the same slot with two more trigger entries,
\* one of a kind that is no TriggerType and one that names no registered
\* procedure.
ChildReasons ==
    {<<>>,
     <<SlotData("prichina_rekomendacii", "TEXT", "O", None, {},
                <<<<"IF-NEEDED", "get_recommendation_reason">>>>)>>,
     <<SlotData("prichina_rekomendacii", "TEXT", "O", None, {},
                <<<<"IF-CHANGED", "validate_budget">>,
                  <<"IF-NEEDED", "get_recommendation_reason">>,
                  <<"IF-ADDED", "check_reason">>>>)>>}

ChainFiles ==
    {<<FrameData("Igra", root, root_genre),
       FrameData("Ekshen", "Igra", parent_genre),
       FrameData("Halo", link[1], link[2] \o genre \o reason)>> :
        root \in RootLinks, link \in ChildLinks, root_genre \in RootGenres,
        parent_genre \in ParentGenres, genre \in ChildGenres,
        reason \in ChildReasons}

\* The names asked for: the frames of the file and one it does not hold;
\* the slots of the file and one no frame declares.
ChainFrames == {"Igra", "Ekshen", "Halo"}
ChainNames == ChainFrames \cup {"Tetris"}
ChainSlots == {"zhanr", "prichina_rekomendacii", "temp"}

ChainInit == \E data \in ChainFiles : Loaded(data)

\* kb.get_frame(name)
GetFrameCall(name) ==
    /\ ret' = Returned("get_frame", name, GetFrame(frames, name), "")
    /\ UNCHANGED <<rules, facts, counter,
                   frames, user_preferences, proto_frames, exo_frames, trace,
                   matched_frames>>

\* frame.is_a(frame_type): a call that does not return is recorded with
\* "loops".
IsACall(f, frame_type) ==
    /\ ret' = Returned("is_a", <<f, frame_type>>,
                       Bool(IsAIn(frames, f, frame_type, {}) = "True"),
                       IF IsAIn(frames, f, frame_type, {}) = "loops"
                       THEN "loops" ELSE "")
    /\ UNCHANGED <<rules, facts, counter,
                   frames, user_preferences, proto_frames, exo_frames, trace,
                   matched_frames>>

\* ec.explain_slot_inheritance(frame_name, slot_name)
ExplainSlotInheritanceCall(frame_name, s) ==
    /\ \E r \in {ExplainSlotInheritanceOf(frames, frame_name, s)} :
           /\ frames' = r.fs
           /\ ret' = Fired(r.fired, Returned("explain_slot_inheritance",
                                             <<frame_name, s>>, r.val, r.err))
    /\ UNCHANGED <<rules, facts, counter,
                   user_preferences, proto_frames, exo_frames, trace, matched_frames>>

\* ec.explain_frame_hierarchy(frame_name)
ExplainFrameHierarchyCall(frame_name) ==
    /\ \E r \in {ExplainFrameHierarchyOf(frames, frame_name)} :
           /\ frames' = r.fs
           /\ ret' = Returned("explain_frame_hierarchy", frame_name, r.val, r.err)
    /\ UNCHANGED <<rules, facts, counter,
                   user_preferences, proto_frames, exo_frames, trace, matched_frames>>

ChainNext ==
    \/ \E name \in ChainNames : GetFrameCall(name)
    \/ \E f \in ChainFrames, s \in ChainSlots : GetSlotValueCall(f, s)
    \/ \E f \in ChainFrames, frame_type \in ChainNames : IsACall(f, frame_type)
    \/ \E name \in ChainNames, s \in ChainSlots : ExplainSlotInheritanceCall(name, s)
    \/ \E name \in ChainNames : ExplainFrameHierarchyCall(name)

SpecChain == ChainInit /\ [][ChainNext]_vars

(***************************************************************************)
(* SpecTrigger: get_slot_value on a game whose one empty slot is computed  *)
(* on demand, for every slot name the registered procedures read or are    *)
(* declared for, and every IF-NEEDED procedure.                            *)
(***************************************************************************)
\* The slot computed on demand: a slot the procedure itself reads from the
\* frame (platforma, zhanr, slozhnost) or one it does not read.
TriggerSlots == {"platforma", "zhanr", "slozhnost", "prichina_rekomendacii"}

TriggerFiles ==
    {<<ParentData,
       FrameData("Halo", ako,
                 <<SlotData(s, data_type, "O", None, {}, <<<<"IF-NEEDED", procedure>>>>)>>
                 \o session)>> :
        ako \in {"", "Igra_dlya_PK"}, s \in TriggerSlots,
        data_type \in {"TEXT", "INTEGER"}, procedure \in IfNeededProcedures,
        session \in {<<>>, <<SessionSlot("korotkaya")>>}}

TriggerInit == \E data \in TriggerFiles : Loaded(data)

TriggerNext ==
    \E f \in FrameNames, s \in TriggerSlots \cup {"dlina_sessii"} :
        GetSlotValueCall(f, s)

SpecTrigger == TriggerInit /\ [][TriggerNext]_vars

(***************************************************************************)
(* SpecExplain: explain_recommendation after an inference run on one       *)
(* catalog game, for every way the game declares the four requirements     *)
(* and every answer to the questions of ShippedAnswers.                    *)
(***************************************************************************)
ExplainInit ==
    \E data \in ScoredFiles, preferences \in ShippedPreferences :
        Inferred(data, preferences)

ExplainNext ==
    \E game_name \in {"Counter-Strike", "Tetris"} : ExplainRecommendation(game_name)

SpecExplain == ExplainInit /\ [][ExplainNext]_vars

(***************************************************************************)
(* SpecGenres: _determine_available_genres on the shipped knowledge file,  *)
(* for every mapping that answers some of the six questions the genre list *)
(* depends on and leaves the others out.                                   *)
(***************************************************************************)
GenreAnswers ==
    {"nravyatsya_eksheny", "nravyatsya_RPG", "nravyatsya_strategii",
     "nravyatsya_simulyatory", "nravyatsya_priklyucheniya", "imeet_onlajn"}
GenrePreferences ==
    UNION {[answered -> {"da", "net"}] : answered \in SUBSET GenreAnswers}

\* InferenceEngine._determine_available_genres(preferences)
DetermineAvailableGenresCall(preferences) ==
    /\ ret' = Returned("_determine_available_genres", preferences,
                       DetermineAvailableGenres(preferences), "")
    /\ UNCHANGED <<frames, rules, facts, counter,
                   user_preferences, proto_frames, exo_frames, trace, matched_frames>>

GenresNext ==
    \E preferences \in GenrePreferences : DetermineAvailableGenresCall(preferences)

SpecGenres == ShippedInit /\ [][GenresNext]_vars

(***************************************************************************)
(* The rule engine of lab2 (src/lab2/lab2.py): production rules, a working *)
(* memory of facts stamped in the order they were added, and forward       *)
(* chaining with three strategies of conflict resolution.                  *)
(***************************************************************************)
\* Rule
Rule(id, conditions, conclusion) ==
    [id |-> id, conditions |-> conditions, conclusion |-> conclusion]

\* FactRecord; the fact itself is the key of WorkingMemory._facts.
FactRecord(source, supports, timestamp) ==
    [source |-> source, supports |-> supports, timestamp |-> timestamp]

\* WorkingMemory.has_fact
HasFact(fs, fact) == fact \in DOMAIN fs

\* WorkingMemory.add_fact on the facts fs and the counter n: what it
\* leaves, and whether the fact was added.
AddFact(fs, n, fact, source, supports) ==
    IF HasFact(fs, fact) THEN [facts |-> fs, counter |-> n, added |-> FALSE]
    ELSE [facts |-> [f \in DOMAIN fs \cup {fact} |->
                        IF f = fact THEN FactRecord(source, supports, n + 1)
                        ELSE fs[f]],
          counter |-> n + 1,
          added |-> TRUE]

\* all(working_memory.has_fact(condition) for condition in rule.conditions)
Satisfied(fs, rule) ==
    \A i \in DOMAIN rule.conditions : HasFact(fs, rule.conditions[i])

\* The conflict set without the skip of the rules whose conclusion the
\* working memory already holds.
CollectSatisfied(rs, fs) == SelectSeq(rs, LAMBDA rule : Satisfied(fs, rule))

\* InferenceEngine._collect_conflict_set
CollectConflictSet(rs, fs) ==
    SelectSeq(rs, LAMBDA rule : ~HasFact(fs, rule.conclusion) /\ Satisfied(fs, rule))

\* strategy.lower(), on the strategy names handed over below.
Lower(strategy) ==
    CASE strategy = "Recency" -> "recency"
      [] strategy = "ORDER" -> "order"
      [] OTHER -> strategy

\* min(conflicts, key=...) and max(conflicts, key=...), keys[i] being the
\* key of seq[i]: the first of the elements with the least, with the
\* greatest key.
PyMin(seq, keys) ==
    seq[CHOOSE i \in DOMAIN seq :
            \A j \in DOMAIN seq : keys[i] < keys[j] \/ (keys[i] = keys[j] /\ i <= j)]
PyMax(seq, keys) ==
    seq[CHOOSE i \in DOMAIN seq :
            \A j \in DOMAIN seq : keys[i] > keys[j] \/ (keys[i] = keys[j] /\ i <= j)]

\* recency_score: the least timestamp of the rule's premises, 0 when it
\* has none.
RecencyScore(fs, rule) ==
    IF rule.conditions = <<>> THEN 0
    ELSE LET timestamps == {fs[rule.conditions[i]].timestamp : i \in DOMAIN rule.conditions}
         IN  CHOOSE t \in timestamps : \A u \in timestamps : t <= u

\* What _resolve_conflict gives back: val is the Optional[Rule], <<>> for
\* None and <<rule>> for a rule; err the exception raised.
Resolved(val, err) == [val |-> val, err |-> err]

\* InferenceEngine._resolve_conflict; get_record raises KeyError for a
\* premise the working memory does not hold.
ResolveConflict(conflicts, strategy, fs) ==
    IF conflicts = <<>> THEN Resolved(<<>>, "")
    ELSE IF Lower(strategy) = "order" THEN Resolved(<<conflicts[1]>>, "")
    ELSE IF Lower(strategy) = "specificity"
    THEN Resolved(<<PyMax(conflicts, [i \in DOMAIN conflicts |->
                                         Len(conflicts[i].conditions)])>>, "")
    ELSE IF Lower(strategy) = "recency"
    THEN IF \E i \in DOMAIN conflicts : ~Satisfied(fs, conflicts[i])
         THEN Resolved(<<>>, "KeyError")
         ELSE Resolved(<<PyMin(conflicts, [i \in DOMAIN conflicts |->
                                              RecencyScore(fs, conflicts[i])])>>, "")
    ELSE Resolved(<<>>, "ValueError")

\* AppliedRule
AppliedRule(rule, iteration) == [rule |-> rule, iteration |-> iteration]

\* InferenceEngine.infer: the state of the loop is st = [facts, counter,
\* iteration, applied, err].
RECURSIVE InferFrom(_, _, _)

\* infer after add_fact gave a: the rule is recorded when its conclusion
\* was added.  When it was not, the rule is removed from conflict_set and
\* the loop ends if nothing is left; else the loop goes round again,
\* collects the same conflict set from the same working memory and chooses
\* the same rule: the call does not return ("loops").
AfterAddFact(rs, strategy, st, conflict_set, rule, a) ==
    IF a.added
    THEN InferFrom(rs, strategy,
                   [facts |-> a.facts, counter |-> a.counter,
                    iteration |-> st.iteration + 1,
                    applied |-> Append(st.applied, AppliedRule(rule, st.iteration + 1)),
                    err |-> ""])
    ELSE IF Len(conflict_set) = 1 THEN st
    ELSE [st EXCEPT !.err = "loops"]

\* infer after _resolve_conflict gave r.
Chosen(rs, strategy, st, conflict_set, r) ==
    IF r.err # "" THEN [st EXCEPT !.err = r.err]
    ELSE IF r.val = <<>> THEN st
    ELSE AfterAddFact(rs, strategy, st, conflict_set, r.val[1],
                      AddFact(st.facts, st.counter, r.val[1].conclusion,
                              r.val[1].id, r.val[1].conditions))

\* infer after _collect_conflict_set gave conflict_set.
Collected(rs, strategy, st, conflict_set) ==
    IF conflict_set = <<>> THEN st
    ELSE Chosen(rs, strategy, st, conflict_set,
                ResolveConflict(conflict_set, strategy, st.facts))

InferFrom(rs, strategy, st) ==
    Collected(rs, strategy, st, CollectConflictSet(rs, st.facts))

Infer(rs, fs, n, strategy) ==
    InferFrom(rs, strategy,
              [facts |-> fs, counter |-> n, iteration |-> 0, applied |-> <<>>,
               err |-> ""])

(***************************************************************************)
(* SpecRules: sessions of the rule engine: a knowledge base of up to       *)
(* MaxRules rules, facts added by the user in any order, forward chaining  *)
(* and conflict resolution with every strategy.                            *)
(***************************************************************************)
MaxRules == 2

\* The facts the user states, the premises and the conclusions of the
\* rules: a rule may conclude what the user may state, and one fact is
\* concluded only.
UserFacts == {"Est PK = da", "Korotkie sessii = da"}
Premises ==
    {<<>>, <<"Est PK = da">>, <<"Korotkie sessii = da">>,
     <<"Est PK = da", "Eksheny dostupny = da">>}
Conclusions ==
    {"Eksheny dostupny = da", "Korotkie sessii = da",
     "Rekomenduemaya igra = Counter-Strike"}

\* The rule files: the k-th rule has the k-th id.
rule_ids == <<"P1", "G1", "C1", "F1">>
RECURSIVE RuleLists(_)
RuleLists(n) ==
    IF n = 0 THEN {<<>>}
    ELSE {Append(l, Rule(rule_ids[n], conditions, conclusion)) :
            l \in RuleLists(n - 1), conditions \in Premises, conclusion \in Conclusions}
RuleFiles == UNION {RuleLists(n) : n \in 1..MaxRules}

\* The strategy names: the three of choose_strategy, two of them in other
\* case, and one that is none.
Strategies == {"order", "specificity", "recency", "Recency", "ORDER", "random"}

\* KnowledgeBase(rules) and WorkingMemory(); no object of lab3 exists.
RulesInit ==
    /\ rules \in RuleFiles
    /\ facts = <<>>
    /\ counter = 0
    /\ frames = <<>>
    /\ user_preferences = NoPreferences
    /\ proto_frames = <<>>
    /\ exo_frames = <<>>
    /\ trace = <<>>
    /\ matched_frames = <<>>
    /\ ret = Returned("KnowledgeBase", None, None, "")

\* wm.add_fact(fact, "user")
AddFactCall(fact) ==
    /\ \E a \in {AddFact(facts, counter, fact, "user", <<>>)} :
           /\ facts' = a.facts
           /\ counter' = a.counter
           /\ ret' = Returned("add_fact", fact, Bool(a.added), "")
    /\ UNCHANGED <<rules, frames, user_preferences, proto_frames, exo_frames, trace,
                   matched_frames>>

\* engine._resolve_conflict(engine._collect_conflict_set(wm), strategy, wm)
ResolveConflictCall(strategy) ==
    /\ \E r \in {ResolveConflict(CollectConflictSet(rules, facts), strategy, facts)} :
           ret' = Returned("_resolve_conflict",
                           <<CollectConflictSet(rules, facts), strategy>>, r.val, r.err)
    /\ UNCHANGED <<rules, facts, counter, frames, user_preferences, proto_frames,
                   exo_frames, trace, matched_frames>>

\* engine.infer(wm, strategy): the list of AppliedRule it returns, None
\* when it raises or does not return.
InferCall(strategy) ==
    /\ \E st \in {Infer(rules, facts, counter, strategy)} :
           /\ facts' = st.facts
           /\ counter' = st.counter
           /\ ret' = Returned("infer", strategy,
                              IF st.err = "" THEN st.applied ELSE None, st.err)
    /\ UNCHANGED <<rules, frames, user_preferences, proto_frames, exo_frames, trace,
                   matched_frames>>

RulesNext ==
    \/ \E fact \in UserFacts : AddFactCall(fact)
    \/ \E strategy \in Strategies : ResolveConflictCall(strategy)
    \/ \E strategy \in Strategies : InferCall(strategy)

SpecRules == RulesInit /\ [][RulesNext]_vars

(***************************************************************************)
(* Properties.  "One run" below: preferences were set once and             *)
(* frame_based_inference ran once since the working memory was last empty. *)
(***************************************************************************)

\* C1: after an inference run, get_all_recommendations(limit) returns at
\* most `limit` records and record i describes the i-th element of the
\* ranked match list frame_based_inference returned, with its score.
C1_RecordsFollowRanking ==
    (/\ ret.op = "get_all_recommendations" /\ ret.err = ""
     /\ Count(trace, "set_preferences") = 1
     /\ Len(exo_frames) = Len(GetGameFrames(frames)))
    => /\ Len(ret.val) <= ret.arg
       /\ \A i \in DOMAIN ret.val :
             /\ i <= Len(matched_frames)
             /\ ret.val[i].game = AkoOf(matched_frames[i])
             /\ ret.val[i].compatibility
                    = matched_frames[i].slots["sovmestimost"].value[3]

\* C2: after an inference run, get_best_recommendation returns the name of
\* the catalog frame of the first element of the ranked match list, and
\* None when no proto-frame qualified.
C2_BestIsTopRanked ==
    (/\ ret.op = "get_best_recommendation" /\ ret.err = ""
     /\ Count(trace, "set_preferences") = 1
     /\ Len(exo_frames) = Len(GetGameFrames(frames)))
    => ret.val = IF matched_frames = <<>> THEN None
                 ELSE Str(AkoOf(matched_frames[1]))

\* C3: every proto-frame held in working memory has a compatibility above
\* 0.3 and a frame_match trace entry recording that score; a proto-frame
\* that scored 0.3 or less is not held.
C3_OnlyMatchesHeld ==
    \A i \in DOMAIN proto_frames :
        /\ "sovmestimost" \in DOMAIN proto_frames[i].slots
        /\ proto_frames[i].slots["sovmestimost"].value[3] > Threshold
        /\ \E j \in DOMAIN trace :
              /\ trace[j].action = "frame_match"
              /\ trace[j].frame_name = proto_frames[i].name
              /\ trace[j].compatibility = proto_frames[i].slots["sovmestimost"].value

\* C4: _calculate_compatibility returns a score in [0, 1], and exactly 0.0
\* for a proto-frame that carries none of the four weighted requirements.
C4_ScoreInUnitInterval ==
    ret.op = "_calculate_compatibility" =>
        /\ ret.err = ""
        /\ ret.val[1] = "float"
        /\ 0 <= ret.val[3] /\ ret.val[3] <= FloatKey(1, 1, 0)
        /\ (\A k \in DOMAIN RequirementSlots :
               RequirementSlots[k] \notin DOMAIN proto_frames[ret.arg[1]].slots)
           => ret.val = Float(0, 1, 0)

\* C4's case: a proto-frame without any of the four requirements was scored.
C4_ScoredWithoutRequirements ==
    /\ ret.op = "_calculate_compatibility"
    /\ \A k \in DOMAIN RequirementSlots :
          RequirementSlots[k] \notin DOMAIN proto_frames[ret.arg[1]].slots
    /\ ret.arg[2] = "PK" /\ ret.arg[3] = <<"ekshen">>
    /\ ret.val = Float(0, 1, 0)

\* C5: the list frame_based_inference returns is sorted by non-increasing
\* compatibility, matches with equal compatibility stand in the order of
\* get_game_frames, and a run that follows a run with the same knowledge
\* base and preferences returns the identical list.
C5_RankingDeterministicStable ==
    [][(ret'.op = "frame_based_inference" /\ ret'.err = ""
        /\ exo_frames' # exo_frames)
       => /\ \A i, j \in DOMAIN matched_frames' :
                i < j =>
                   LET ki == matched_frames'[i].slots["sovmestimost"].value[3]
                       kj == matched_frames'[j].slots["sovmestimost"].value[3]
                       catalog == GetGameFrames(frames')
                       at(m) == CHOOSE k \in DOMAIN catalog : catalog[k] = AkoOf(m)
                   IN  /\ ki >= kj
                       /\ ki = kj => at(matched_frames'[i]) < at(matched_frames'[j])
          /\ (ret.op = "frame_based_inference" /\ ret.err = "")
                => matched_frames' = matched_frames]_vars

\* C5's case: a second run with the preferences of the first returned two
\* matches of equal compatibility.
C5_TiedMatchesRerun ==
    /\ ret.op = "frame_based_inference" /\ ret.err = ""
    /\ Count(trace, "set_preferences") = 1
    /\ Len(GetGameFrames(frames)) = 2
    /\ Len(exo_frames) = 4
    /\ Len(matched_frames) = 2
    /\ matched_frames[1].slots["sovmestimost"].value
          = matched_frames[2].slots["sovmestimost"].value

\* C6: on the shipped knowledge base, with a PC, no console, action games
\* liked and no other genre, online access and short sessions, the platform
\* is PC, the genres are exactly action, Counter-Strike (short sessions) and
\* Battlefield (long sessions) are both matches, and Counter-Strike stands
\* before Battlefield.
C6_ShortSessionOutranks ==
    LET at(name) == {i \in DOMAIN matched_frames : AkoOf(matched_frames[i]) = name}
    IN  (/\ ret.op = "frame_based_inference"
         /\ user_preferences =
               [k \in PreferenceKeys |->
                   IF k \in {"imeet_PK", "nravyatsya_eksheny", "imeet_onlajn",
                             "korotkie_sessii"}
                   THEN "da" ELSE "net"])
        => /\ ret.err = ""
           /\ DetermineUserPlatform(user_preferences) = "PK"
           /\ DetermineAvailableGenres(user_preferences) = <<"ekshen">>
           /\ at("Counter-Strike") # {} /\ at("Battlefield") # {}
           /\ \A i \in at("Counter-Strike"), j \in at("Battlefield") :
                 /\ i < j
                 /\ matched_frames[i].slots["rekomenduemaya_dlina_sessii"].value
                       = Str("korotkaya")
                 /\ matched_frames[j].slots["rekomenduemaya_dlina_sessii"].value
                       = Str("dlinnaya")

\* C6's case: the run with these preferences, Counter-Strike first of the
\* thirteen matches.
C6_ShippedRun ==
    /\ ret.op = "frame_based_inference"
    /\ user_preferences =
          [k \in PreferenceKeys |->
              IF k \in {"imeet_PK", "nravyatsya_eksheny", "imeet_onlajn",
                        "korotkie_sessii"}
              THEN "da" ELSE "net"]
    /\ Len(matched_frames) = 13
    /\ AkoOf(matched_frames[1]) = "Counter-Strike"

\* C7: get_slot_value(F, s) returns None or a value that satisfies the data
\* type and the permissible values of the slot s declared on F, or of the
\* parent's slot that supplied the value when F declares none.
C7_ReadsAreValidOrNone ==
    (ret.op = "get_slot_value" /\ ret.err = "" /\ ret.val # None) =>
        LET f == ret.arg[1]
            s == ret.arg[2]
            slot == IF s \in DOMAIN frames[f].slots THEN frames[f].slots[s]
                    ELSE frames[AkoOf(frames[f])].slots[s]
        IN  /\ ValidateType(slot.data_type, ret.val)
            /\ ValidateRange(slot.range_values, ret.val)

\* C8: two consecutive calls get_slot_value(F, s) return the same result,
\* also when the first of them fires an IF-NEEDED trigger.
C8_ReadTwiceSame ==
    [][(/\ ret.op = "get_slot_value" /\ ret'.op = "get_slot_value"
        /\ ret'.arg = ret.arg)
       => (ret'.val = ret.val /\ ret'.err = ret.err)]_vars

\* C8's case: a read of the computed recommendation reason that fired no
\* trigger and returned the value an earlier read's trigger had stored.
C8_ReadFromStoredValue ==
    /\ ret.op = "get_slot_value"
    /\ ret.arg = <<"Halo", "prichina_rekomendacii">>
    /\ ret.err = "" /\ ret.fired = <<>>
    /\ ret.val # None
    /\ "prichina_rekomendacii" \in DOMAIN frames["Halo"].slots
    /\ frames["Halo"].slots["prichina_rekomendacii"].triggers["IF-NEEDED"]
          = "get_recommendation_reason"
    /\ frames["Halo"].slots["prichina_rekomendacii"].value = ret.val

\* C9: set_slot_value on a slot the frame holds, with a value of the wrong
\* data type or outside the slot's non-empty permissible values, raises
\* ValueError, leaves the knowledge base as it was and calls no IF-ADDED
\* trigger.
C9_InvalidWriteRejected ==
    [][ret'.op = "set_slot_value" =>
         LET f == ret'.arg[1]
             s == ret'.arg[2]
             value == ret'.arg[3]
             slot == frames[f].slots[s]
             right_type ==
                \/ value = None
                \/ slot.data_type = "TEXT" /\ value[1] = "str"
                \/ slot.data_type = "BOOLEAN" /\ value[1] = "bool"
                \/ slot.data_type = "INTEGER" /\ value[1] \in {"int", "float"}
                \/ slot.data_type = "FRAME" /\ value[1] = "Frame"
                \/ slot.data_type = "LIST" /\ value[1] = "list"
             in_range == slot.range_values = {} \/ value \in slot.range_values
         IN  (s \in DOMAIN frames[f].slots /\ (~right_type \/ ~in_range))
             => /\ ret'.err = "ValueError"
                /\ frames' = frames
                /\ ret'.fired = <<>>]_vars

\* C9's case: a boolean was written to the session-length slot, a text slot
\* with an IF-ADDED trigger; the call raised and the slot holds its value.
C9_WrongTypeRejected ==
    /\ ret.op = "set_slot_value"
    /\ ret.arg = <<"Halo", "dlina_sessii", PyTrue>>
    /\ ret.err = "ValueError" /\ ret.fired = <<>>
    /\ frames["Halo"].slots["dlina_sessii"].triggers["IF-ADDED"]
          = "validate_session_length"
    /\ frames["Halo"].slots["dlina_sessii"].value = Str("korotkaya")

\* C10: after an inference run, explain_recommendation(name) returns the
\* not-found message for every name that is not among the run's matches.
C10_NotFoundUnlessMatched ==
    (/\ ret.op = "explain_recommendation" /\ ret.err = ""
     /\ Count(trace, "set_preferences") = 1
     /\ Len(exo_frames) = Len(GetGameFrames(frames))
     /\ \A i \in DOMAIN matched_frames : AkoOf(matched_frames[i]) # ret.arg)
    => ret.val.found = FALSE

\* No frame of the knowledge base gives slot s a value: each frame leaves
\* it undeclared, or declares it without a value, without a default and
\* without an IF-NEEDED procedure.
ResolvesNowhere(fs, s) ==
    \A g \in DOMAIN fs :
        s \in DOMAIN fs[g].slots =>
            /\ fs[g].slots[s].value = None
            /\ fs[g].slots[s].default_value = None
            /\ fs[g].slots[s].triggers["IF-NEEDED"] = ""

\* C11: a read of missing data raises nothing: get_slot_value returns None
\* for a slot that no frame gives a value, get_frame returns None for a
\* name the knowledge base does not hold, explain_slot_inheritance and
\* explain_frame_hierarchy report "not found" for such a name, and
\* explain_slot_inheritance reports "not found" for such a slot.
C11_MissingDataNeverRaises ==
    /\ (ret.op = "get_slot_value" /\ ResolvesNowhere(frames, ret.arg[2]))
           => (ret.err = "" /\ ret.val = None)
    /\ (ret.op = "get_frame" /\ ret.arg \notin DOMAIN frames)
           => (ret.err = "" /\ ret.val = None)
    /\ (ret.op = "explain_slot_inheritance" /\ ret.arg[1] \notin DOMAIN frames)
           => (ret.err = "" /\ ret.val.kind = "frame_not_found")
    /\ (ret.op = "explain_slot_inheritance" /\ ret.arg[1] \in DOMAIN frames
            /\ ResolvesNowhere(frames, ret.arg[2]))
           => (ret.err = "" /\ ret.val.kind = "not_found")
    /\ (ret.op = "explain_frame_hierarchy" /\ ret.arg \notin DOMAIN frames)
           => (ret.err = "" /\ ~ret.val.found)

\* C12: the knowledge base is the same after every call of the session
\* (set_user_preferences, frame_based_inference, get_best_recommendation,
\* get_all_recommendations, explain_recommendation, reset) as before it:
\* the same frames, AKO links and stored slot values.
C12_KnowledgeBaseUnchanged == [][frames' = frames]_vars

\* C13: the working memory holds the entries of one inference run only:
\* the proto-frames, the exo-frames and the trace entries of proto-frames
\* added are never more than the catalog frames of the knowledge base.
C13_WorkingMemoryOfOneRun ==
    /\ Len(proto_frames) <= Len(GetGameFrames(frames))
    /\ Len(exo_frames) <= Len(GetGameFrames(frames))
    /\ Count(trace, "add_proto_frame") <= Len(GetGameFrames(frames))

\* The requirement a proto-frame holds in slot s, None when it holds none.
Required(proto_frame, s) ==
    IF s \in DOMAIN proto_frame.slots THEN proto_frame.slots[s].value ELSE None

\* C14: when the proto-frame's required platform is present and equals the
\* user's determined platform, the platform criterion adds its whole weight
\* 0.35 to the possible total and to the achieved total: the score is the
\* quotient with that criterion and the other three as the code counts
\* them, for every preference mapping.
C14_EqualPlatformEarnsFullWeight ==
    (/\ ret.op = "_calculate_compatibility"
     /\ Truthy(Required(proto_frames[ret.arg[1]], "trebuemaya_platforma"))
     /\ Required(proto_frames[ret.arg[1]], "trebuemaya_platforma") = Str(ret.arg[2]))
    => /\ ret.err = ""
       /\ ret.val =
            Quotient(<<Criterion(35, 35),
                       GenreCriterion(Required(proto_frames[ret.arg[1]],
                                               "trebuemyj_zhanr"), ret.arg[3]),
                       OnlineCriterion(Required(proto_frames[ret.arg[1]],
                                                "trebuet_onlajn"), user_preferences),
                       SessionCriterion(Required(proto_frames[ret.arg[1]],
                                                 "rekomenduemaya_dlina_sessii"),
                                        user_preferences)>>)

\* C14 happens: a game for the Xbox, no other requirement declared, scored
\* for a user whose platform is the Xbox: 1.0.
C14_XboxGameForXboxUser ==
    /\ ret.op = "_calculate_compatibility"
    /\ ret.err = ""
    /\ ret.arg[2] = "Xbox"
    /\ Required(proto_frames[ret.arg[1]], "trebuemaya_platforma") = Str("Xbox")
    /\ Required(proto_frames[ret.arg[1]], "trebuemyj_zhanr") = None
    /\ Required(proto_frames[ret.arg[1]], "trebuet_onlajn") = None
    /\ Required(proto_frames[ret.arg[1]], "rekomenduemaya_dlina_sessii") = None
    /\ ret.val = Float(1, 1, 0)

\* C15: explain_slot_inheritance on a frame whose own slot holds a value
\* reports that local value alone, with no chain of ancestors, and leaves
\* the knowledge base as it was, whatever the ancestors hold.
C15_LocalValueAlone ==
    [][(/\ ret'.op = "explain_slot_inheritance"
        /\ ret'.arg[1] \in DOMAIN frames
        /\ ret'.arg[2] \in DOMAIN frames[ret'.arg[1]].slots
        /\ frames[ret'.arg[1]].slots[ret'.arg[2]].value # None)
       => /\ ret'.err = ""
          /\ ret'.val.kind = "local"
          /\ ret'.val.local = frames[ret'.arg[1]].slots[ret'.arg[2]].value
          /\ ret'.val.chain = <<>>
          /\ ret'.val.final = None
          /\ frames' = frames]_vars

\* C15 happens: Halo holds its own genre below Ekshen, which holds another
\* one, and the explanation of Halo's genre was asked for.
C15_LocalGenreBelowParentGenre ==
    /\ ret.op = "explain_slot_inheritance"
    /\ ret.arg = <<"Halo", "zhanr">>
    /\ ret.err = ""
    /\ ret.val.kind = "local"
    /\ ret.val.local = Str("shuter")
    /\ AkoOf(frames["Halo"]) = "Ekshen"
    /\ frames["Ekshen"].slots["zhanr"].value = Str("ekshen")

\* C16: explain_frame_hierarchy, when it returns for a frame of the
\* knowledge base, lists that frame at depth 0, then the AKO parent of each
\* listed frame at the depth one greater, and ends at a frame without a
\* parent; for a root frame the list is that frame alone.
C16_HierarchyFollowsAko ==
    (ret.op = "explain_frame_hierarchy" /\ ret.err = "" /\ ret.val.found)
    => /\ Len(ret.val.hierarchy) >= 1
       /\ ret.val.hierarchy[1] = <<0, ret.arg>>
       /\ \A i \in 2..Len(ret.val.hierarchy) :
              /\ ret.val.hierarchy[i][1] = ret.val.hierarchy[i - 1][1] + 1
              /\ frames[ret.val.hierarchy[i - 1][2]].slots["AKO"].value
                     = FrameRef(ret.val.hierarchy[i][2])
       /\ ~Truthy(frames[ret.val.hierarchy[Len(ret.val.hierarchy)][2]]
                      .slots["AKO"].value)
       /\ ~Truthy(frames[ret.arg].slots["AKO"].value)
              => ret.val.hierarchy = <<<<0, ret.arg>>>>

\* C16 happens: the hierarchy of Halo below Ekshen below the root Igra.
C16_HaloEkshenIgra ==
    /\ ret.op = "explain_frame_hierarchy"
    /\ ret.err = ""
    /\ ret.arg = "Halo"
    /\ ret.val.hierarchy = <<<<0, "Halo">>, <<1, "Ekshen">>, <<2, "Igra">>>>

\* C17: a trigger entry of an unrecognized kind, or naming a procedure that
\* is not registered, does not fail the load: every frame of the file is
\* loaded, every slot of it is created with its value, the valid trigger
\* entries of the slot are attached and the others are not.
C17_InvalidTriggersSkipped ==
    ret.op = "load_from_json" =>
        /\ ret.err = ""
        /\ \A i \in DOMAIN ret.arg :
               /\ ret.arg[i].name \in DOMAIN frames
               /\ \A j \in DOMAIN ret.arg[i].slots :
                      /\ ret.arg[i].slots[j].name \in DOMAIN frames[ret.arg[i].name].slots
                      /\ ret.arg[i].slots[j].value[1] # "ref"
                             => frames[ret.arg[i].name].slots[ret.arg[i].slots[j].name].value
                                    = ret.arg[i].slots[j].value
                      /\ \A k \in {"IF-NEEDED", "IF-ADDED", "IF-REMOVED"} :
                             \/ \E n \in DOMAIN ret.arg[i].slots[j].triggers :
                                    /\ ret.arg[i].slots[j].triggers[n][1] = k
                                    /\ ret.arg[i].slots[j].triggers[n][2] \in Procedures
                                    /\ frames[ret.arg[i].name].slots[ret.arg[i].slots[j].name]
                                           .triggers[k]
                                           = ret.arg[i].slots[j].triggers[n][2]
                             \/ /\ \A n \in DOMAIN ret.arg[i].slots[j].triggers :
                                       \/ ret.arg[i].slots[j].triggers[n][1] # k
                                       \/ ret.arg[i].slots[j].triggers[n][2] \notin Procedures
                                /\ frames[ret.arg[i].name].slots[ret.arg[i].slots[j].name]
                                       .triggers[k] = ""

\* C17 happens: the file was loaded whose slot prichina_rekomendacii of
\* Halo has an entry of the kind IF-CHANGED, an IF-ADDED entry naming the
\* unregistered check_reason, and a valid IF-NEEDED entry, which the loaded
\* slot holds alone; Halo's genre was loaded beside it.
C17_LoadedWithInvalidEntries ==
    /\ ret.op = "load_from_json"
    /\ ret.err = ""
    /\ \E j \in DOMAIN ret.arg[3].slots :
           /\ ret.arg[3].slots[j].name = "prichina_rekomendacii"
           /\ \E n \in DOMAIN ret.arg[3].slots[j].triggers :
                  ret.arg[3].slots[j].triggers[n] = <<"IF-CHANGED", "validate_budget">>
           /\ \E n \in DOMAIN ret.arg[3].slots[j].triggers :
                  ret.arg[3].slots[j].triggers[n] = <<"IF-ADDED", "check_reason">>
    /\ frames["Halo"].slots["prichina_rekomendacii"].triggers
           = [NoTriggers EXCEPT !["IF-NEEDED"] = "get_recommendation_reason"]
    /\ DOMAIN frames = {"Igra", "Ekshen", "Halo"}
    /\ "zhanr" \in DOMAIN frames["Halo"].slots
    /\ frames["Halo"].slots["zhanr"].value = Str("shuter")

\* C20: every walk over the AKO links returns, whatever links the file
\* declared, cyclic ones included: get_slot_value for a slot that no frame
\* gives a value, is_a, explain_frame_hierarchy and
\* explain_slot_inheritance neither recurse nor loop without end.
C20_ChainWalksReturn ==
    /\ (ret.op = "get_slot_value" /\ ResolvesNowhere(frames, ret.arg[2]))
           => ret.err \notin {"RecursionError", "loops"}
    /\ ret.op \in {"is_a", "explain_frame_hierarchy", "explain_slot_inheritance"}
           => ret.err \notin {"RecursionError", "loops"}

\* C18: infer returns for every rule file, strategy and working memory (it
\* raises for a strategy that is none of the three, and never goes round
\* without end); when it returns, no rule has all its conditions in working
\* memory and its conclusion absent, the k-th applied rule has iteration k,
\* and each applied rule added its conclusion, once: the conclusions are
\* different facts, recorded with the rule's id and conditions and stamped
\* in the order of application by this call.
C18_InferSaturates ==
    ret.op = "infer" =>
        /\ ret.err \in {"", "ValueError"}
        /\ ret.err = "ValueError"
               => ret.arg \notin {"order", "specificity", "recency", "Recency", "ORDER"}
        /\ ret.err = "" =>
               /\ \A i \in DOMAIN rules :
                      \/ rules[i].conclusion \in DOMAIN facts
                      \/ \E c \in DOMAIN rules[i].conditions :
                             rules[i].conditions[c] \notin DOMAIN facts
               /\ \A k \in DOMAIN ret.val :
                      /\ ret.val[k].iteration = k
                      /\ ret.val[k].rule.conclusion \in DOMAIN facts
                      /\ facts[ret.val[k].rule.conclusion]
                             = [source |-> ret.val[k].rule.id,
                                supports |-> ret.val[k].rule.conditions,
                                timestamp |-> counter - Len(ret.val) + k]
                      /\ \A l \in DOMAIN ret.val :
                             l # k => ret.val[l].rule.conclusion
                                          # ret.val[k].rule.conclusion

\* C18 happens: infer applied two rules, the second on the conclusion of
\* the first, and a third fact of the working memory came from the user.
C18_ChainedRules ==
    /\ ret.op = "infer"
    /\ ret.err = ""
    /\ Len(ret.val) = 2
    /\ \E c \in DOMAIN ret.val[2].rule.conditions :
           ret.val[2].rule.conditions[c] = ret.val[1].rule.conclusion
    /\ counter = 3

\* C19: with the strategy "recency", the rule _resolve_conflict selects is
\* not one whose premises were all added to working memory before every
\* premise of another rule of the conflict set.
C19_RecencyPrefersNewerPremises ==
    (ret.op = "_resolve_conflict" /\ ret.arg[2] = "recency" /\ ret.err = ""
        /\ ret.val # <<>>)
    => \A i \in DOMAIN ret.arg[1] :
           ~(/\ ret.val[1].conditions # <<>>
             /\ ret.arg[1][i].conditions # <<>>
             /\ \A c \in DOMAIN ret.val[1].conditions,
                   d \in DOMAIN ret.arg[1][i].conditions :
                    facts[ret.val[1].conditions[c]].timestamp
                        < facts[ret.arg[1][i].conditions[d]].timestamp)

\* C21: a read of an empty slot whose IF-NEEDED procedure reads slots of
\* the same frame returns: the procedure is not entered again without end,
\* so no read raises RecursionError.
C21_TriggerReadReturns ==
    ret.op = "get_slot_value" => ret.err # "RecursionError"

\* C22: after load_from_json every frame whose definition names a declared
\* frame in `ako` has that frame as its AKO parent, wherever in the file
\* the parent is defined and whatever slots the definition declares.
C22_AkoFieldIsParent ==
    ret.op = "load_from_json" =>
        /\ ret.err = ""
        /\ \A i \in DOMAIN ret.arg :
               (\E j \in DOMAIN ret.arg : ret.arg[j].name = ret.arg[i].ako)
                   => AkoOf(frames[ret.arg[i].name]) = ret.arg[i].ako

\* C23: explain_recommendation marks a criterion (platform, genre, session
\* length, online) as satisfied exactly when _calculate_compatibility, for
\* the same proto-frame and the same preferences, adds that criterion's
\* whole weight to the score.
C23_SatisfiedIffFullWeight ==
    (ret.op = "explain_recommendation" /\ ret.err = "" /\ ret.val.found) =>
        \A i \in ProtosOf(proto_frames, ret.arg) :
            (\A j \in ProtosOf(proto_frames, ret.arg) : i <= j) =>
                \E c \in {Criteria(
                            ObjReadSlots(Result(<<>>, frames, ""), proto_frames[i],
                                         RequirementSlots).val,
                            DetermineUserPlatform(user_preferences),
                            DetermineAvailableGenres(user_preferences),
                            user_preferences)} :
                    /\ ret.val.platform_match = PyTrue
                         <=> (c[1].possible > 0 /\ c[1].achieved = c[1].possible)
                    /\ ret.val.genre_match = PyTrue
                         <=> (c[2].possible > 0 /\ c[2].achieved = c[2].possible)
                    /\ ret.val.online_match = PyTrue
                         <=> (c[3].possible > 0 /\ c[3].achieved = c[3].possible)
                    /\ ret.val.session_match = PyTrue
                         <=> (c[4].possible > 0 /\ c[4].achieved = c[4].possible)

\* C24: in a _calculate_compatibility call on a proto-frame with a required
\* platform, the platform criterion adds 0.35 to the achieved total when
\* the requirement equals the user's platform or is "multiplatforma";
\* otherwise 0.15 when the user's platform is the PC and the requirement is
\* Playstation or Xbox; otherwise nothing.  The score is the quotient with
\* that criterion and the other three as the code counts them.
C24_PlatformCredit ==
    (/\ ret.op = "_calculate_compatibility"
     /\ Truthy(Required(proto_frames[ret.arg[1]], "trebuemaya_platforma")))
    => /\ ret.err = ""
       /\ \E required \in {Required(proto_frames[ret.arg[1]], "trebuemaya_platforma")} :
            ret.val =
              Quotient(<<Criterion(35,
                                   IF required = Str(ret.arg[2])
                                      \/ required = Str("multiplatforma") THEN 35
                                   ELSE IF ret.arg[2] = "PK"
                                           /\ required \in {Str("Playstation"), Str("Xbox")}
                                   THEN 15
                                   ELSE 0),
                         GenreCriterion(Required(proto_frames[ret.arg[1]],
                                                 "trebuemyj_zhanr"), ret.arg[3]),
                         OnlineCriterion(Required(proto_frames[ret.arg[1]],
                                                  "trebuet_onlajn"), user_preferences),
                         SessionCriterion(Required(proto_frames[ret.arg[1]],
                                                   "rekomenduemaya_dlina_sessii"),
                                          user_preferences)>>)

\* C24 as stated: the full 0.35 is added only when the required platform
\* equals the user's platform.
C24_FullWeightOnlyWhenEqual ==
    (/\ ret.op = "_calculate_compatibility"
     /\ Truthy(Required(proto_frames[ret.arg[1]], "trebuemaya_platforma")))
    => /\ ret.err = ""
       /\ \E required \in {Required(proto_frames[ret.arg[1]], "trebuemaya_platforma")} :
            ret.val =
              Quotient(<<Criterion(35,
                                   IF required = Str(ret.arg[2]) THEN 35
                                   ELSE IF ret.arg[2] = "PK"
                                           /\ required \in {Str("Playstation"), Str("Xbox")}
                                   THEN 15
                                   ELSE 0),
                         GenreCriterion(Required(proto_frames[ret.arg[1]],
                                                 "trebuemyj_zhanr"), ret.arg[3]),
                         OnlineCriterion(Required(proto_frames[ret.arg[1]],
                                                  "trebuet_onlajn"), user_preferences),
                         SessionCriterion(Required(proto_frames[ret.arg[1]],
                                                   "rekomenduemaya_dlina_sessii"),
                                          user_preferences)>>)

\* C24 happens: a game for the Xbox, no other requirement declared, scored
\* for a user whose platform is the PC: 0.15 of 0.35.
C24_XboxGameForPcUser ==
    /\ ret.op = "_calculate_compatibility"
    /\ ret.err = ""
    /\ ret.arg[2] = "PK"
    /\ Required(proto_frames[ret.arg[1]], "trebuemaya_platforma") = Str("Xbox")
    /\ Required(proto_frames[ret.arg[1]], "trebuemyj_zhanr") = None
    /\ Required(proto_frames[ret.arg[1]], "trebuet_onlajn") = None
    /\ Required(proto_frames[ret.arg[1]], "rekomenduemaya_dlina_sessii") = None
    /\ ret.val = Quotient(<<Criterion(35, 15), NotApplicable, NotApplicable,
                            NotApplicable>>)

\* C25: in a _calculate_compatibility call on a proto-frame whose online
\* requirement is present and false, the online criterion adds 0.10 of its
\* 0.15 when the user has online access and the whole 0.15 when the user
\* has none.  The score is the quotient with that criterion and the other
\* three as the code counts them.
C25_OfflineGameCredit ==
    (/\ ret.op = "_calculate_compatibility"
     /\ Required(proto_frames[ret.arg[1]], "trebuet_onlajn") = PyFalse)
    => /\ ret.err = ""
       /\ ret.val =
            Quotient(<<PlatformCriterion(Required(proto_frames[ret.arg[1]],
                                                  "trebuemaya_platforma"), ret.arg[2]),
                       GenreCriterion(Required(proto_frames[ret.arg[1]],
                                               "trebuemyj_zhanr"), ret.arg[3]),
                       Criterion(15, IF PrefGet(user_preferences, "imeet_onlajn") = "da"
                                     THEN 10 ELSE 15),
                       SessionCriterion(Required(proto_frames[ret.arg[1]],
                                                 "rekomenduemaya_dlina_sessii"),
                                        user_preferences)>>)

\* C25 as stated: 0.10 of 0.15 whether or not the user has online access.
C25_OfflineGameEarnsPartial ==
    (/\ ret.op = "_calculate_compatibility"
     /\ Required(proto_frames[ret.arg[1]], "trebuet_onlajn") = PyFalse)
    => /\ ret.err = ""
       /\ ret.val =
            Quotient(<<PlatformCriterion(Required(proto_frames[ret.arg[1]],
                                                  "trebuemaya_platforma"), ret.arg[2]),
                       GenreCriterion(Required(proto_frames[ret.arg[1]],
                                               "trebuemyj_zhanr"), ret.arg[3]),
                       Criterion(15, 10),
                       SessionCriterion(Required(proto_frames[ret.arg[1]],
                                                 "rekomenduemaya_dlina_sessii"),
                                        user_preferences)>>)

\* C25 happens: a game that needs no online access, no other requirement
\* declared, scored for a user without online access: 1.0.
C25_OfflineGameForOfflineUser ==
    /\ ret.op = "_calculate_compatibility"
    /\ ret.err = ""
    /\ PrefGet(user_preferences, "imeet_onlajn") = "net"
    /\ Required(proto_frames[ret.arg[1]], "trebuemaya_platforma") = None
    /\ Required(proto_frames[ret.arg[1]], "trebuemyj_zhanr") = None
    /\ Required(proto_frames[ret.arg[1]], "trebuet_onlajn") = PyFalse
    /\ Required(proto_frames[ret.arg[1]], "rekomenduemaya_dlina_sessii") = None
    /\ ret.val = Float(1, 1, 0)

\* C26: for every preference mapping the list _determine_available_genres
\* returns holds no label twice and holds "ekshen" exactly when action
\* games are liked, "RPG" exactly when RPGs are liked, "strategiya" exactly
\* when strategies or simulators are liked, "priklyuchenie" exactly when
\* adventures are liked and online access is "da", and nothing else.
C26_OneLabelPerGenre ==
    ret.op = "_determine_available_genres" =>
        /\ ret.err = ""
        /\ \A i, j \in DOMAIN ret.val : ret.val[i] = ret.val[j] => i = j
        /\ \A i \in DOMAIN ret.val :
               ret.val[i] \in {"ekshen", "RPG", "strategiya", "priklyuchenie"}
        /\ (\E i \in DOMAIN ret.val : ret.val[i] = "ekshen")
              <=> PrefGet(ret.arg, "nravyatsya_eksheny") = "da"
        /\ (\E i \in DOMAIN ret.val : ret.val[i] = "RPG")
              <=> PrefGet(ret.arg, "nravyatsya_RPG") = "da"
        /\ (\E i \in DOMAIN ret.val : ret.val[i] = "strategiya")
              <=> (\/ PrefGet(ret.arg, "nravyatsya_strategii") = "da"
                   \/ PrefGet(ret.arg, "nravyatsya_simulyatory") = "da")
        /\ (\E i \in DOMAIN ret.val : ret.val[i] = "priklyuchenie")
              <=> (/\ PrefGet(ret.arg, "nravyatsya_priklyucheniya") = "da"
                   /\ PrefGet(ret.arg, "imeet_onlajn") = "da")

\* C26 happens: strategies, simulators and adventures are liked and online
\* access is "net": the list is the one label "strategiya".
C26_StrategiesAndSimulators ==
    /\ ret.op = "_determine_available_genres"
    /\ PrefGet(ret.arg, "nravyatsya_strategii") = "da"
    /\ PrefGet(ret.arg, "nravyatsya_simulyatory") = "da"
    /\ PrefGet(ret.arg, "nravyatsya_priklyucheniya") = "da"
    /\ PrefGet(ret.arg, "imeet_onlajn") = "net"
    /\ ret.val = <<"strategiya">>

\* C27: a read of a slot that follows the slot's remove_value returns what
\* a read of a never-assigned slot returns (the IF-NEEDED result, else the
\* AKO parent's value, else None): the value a slot holding neither a
\* stored value nor a created-with value yields.
C27_ClearedSlotReadsAsEmpty ==
    [][\A s \in WrittenSlotNames :
          (/\ ret.op = "remove_value" /\ ret.arg = <<"Halo", s>>
           /\ ret'.op = "get_slot_value" /\ ret'.arg = <<"Halo", s>>)
          => /\ ret'.err = ""
             /\ ret'.val =
                  GetSlotValue([frames EXCEPT !["Halo"].slots[s].default_value = None],
                               "Halo", s).val]_vars

\* C28: a set_slot_value call that raises leaves the slot's stored value as
\* it was before the call, and creates no slot.
C28_RaisingWriteKeepsValue ==
    [][(ret'.op = "set_slot_value" /\ ret'.err # "")
          => IF ret'.arg[2] \in DOMAIN frames[ret'.arg[1]].slots
             THEN /\ ret'.arg[2] \in DOMAIN frames'[ret'.arg[1]].slots
                  /\ frames'[ret'.arg[1]].slots[ret'.arg[2]].value
                       = frames[ret'.arg[1]].slots[ret'.arg[2]].value
             ELSE ret'.arg[2] \notin DOMAIN frames'[ret'.arg[1]].slots]_vars

\* C29: when explain_slot_inheritance(frame, slot) reports an inherited
\* chain, the value it gives as final is the value
\* frame.get_slot_value(slot) returns.
C29_FinalIsTheValueRead ==
    (/\ ret.op = "explain_slot_inheritance"
     /\ ret.err = ""
     /\ ret.val.kind = "inherited")
    => ret.val.final = GetSlotValue(frames, ret.arg[1], ret.arg[2]).val

\* C30: in every frame_match trace entry of an inference run, platform_match
\* is true exactly when the platform criterion earned its whole weight in
\* the score of the entry's proto-frame, and genre_match is true exactly
\* when the genre criterion earned its whole weight.
C30_TraceFlagsAreFullWeights ==
    \A j \in DOMAIN trace : \A i \in DOMAIN proto_frames :
        (trace[j].action = "frame_match" /\ trace[j].frame_name = proto_frames[i].name)
        => \E c \in {Criteria(
                        ObjReadSlots(Result(<<>>, frames, ""), proto_frames[i],
                                     RequirementSlots).val,
                        DetermineUserPlatform(user_preferences),
                        DetermineAvailableGenres(user_preferences),
                        user_preferences)} :
               /\ trace[j].compatibility = Quotient(c)
               /\ trace[j].platform_match = PyTrue
                    <=> (c[1].possible > 0 /\ c[1].achieved = c[1].possible)
               /\ trace[j].genre_match = PyTrue
                    <=> (c[2].possible > 0 /\ c[2].achieved = c[2].possible)

=============================================================================
